---- MODULE Spec2Model ----
(***************************************************************************)
(* Verification model of the visual-assistant UI:                          *)
(*   - buildChantierAggregatedPhotos (SAV detail page, pure function),     *)
(*   - shouldShowGroup / shouldShowField (link generator, pure functions), *)
(*   - the link generator page (form state, step loading, contact search), *)
(*   - the SAV detail page (include flags, notes).                         *)
(* Text values are sequences of one-character strings, so that trimming,   *)
(* lower-casing, concatenation and parsing are computed as the code        *)
(* computes them.  Object keys that the code only compares for equality    *)
(* (field keys, step keys, URL parameter names) are plain strings.         *)
(***************************************************************************)
EXTENDS Integers, Sequences, FiniteSets, TLC

VARIABLES
    \* ---- harness of buildChantierAggregatedPhotos
    aggSessions,    \* the SessionDetail[] argument
    aggResult,      \* the returned { photos, idMap }, [called, photos, idMap]
    \* ---- harness of shouldShowGroup / shouldShowField
    visInput,       \* the arguments of the call under evaluation
    visResult,      \* [called, value]: the returned boolean
    \* ---- link generator page (GenerateurPage): React state
    products, np, ns, em, c, p, s, ivData,
    availableGroups, isLoadingSteps, stepsError, selectedSteps,
    contactQuery, contactResults, showResults, blockSearch, isLoadingContacts,
    contactPhone, matchingCandidates, selectedUserData, isLookupLoading, lookupError,
    \* ---- link generator page: timers and requests in flight
    stepsInFlight,   \* /steps requests awaiting their response, [p, s, seq]
    stepsIssued,     \* number of /steps requests issued so far
    contactTimer,    \* the debounce timer of the contact search, [armed, q]
    contactInFlight, \* /contacts/search requests awaiting their response, [q, seq]
    contactIssued,   \* number of /contacts/search requests issued so far
    lookupInFlight,  \* number of /people/lookup requests awaiting their response
    \* ---- SAV detail page (SavSessionDetailPage): React state
    savKey,          \* the route parameter sessions_id, decoded
    loading, error, detail, loadedSessionId, chantierMeta, chantierPhotoIdMap,
    includeMap, notes, activeNoteId, noteText, notePhotos, toast,
    \* ---- SAV detail page: clock, timers and requests in flight
    nowMs,           \* Date.now()
    savLoads,        \* GET /sav/item requests awaiting their response, [key, cancelled]
    draftSaves,      \* POST .../draft requests awaiting their response
    notesSaveTimer,  \* the debounce timer of the notes autosave is pending
    notesSaves,      \* notes PATCH requests awaiting their response
    globalSavNote, chantier, publishing,
    publishCalls,    \* handlePublish calls awaiting the publish or the webhook response
    \* ---- SAV diagnostic page (SavSessionDetailPage of the annotation editor)
    sessLoading, sessDetail, sessPublishing, sessToast,
    sessPublishCalls, \* handlePublish calls awaiting the publish or the webhook response
    \* ---- public report pages (PublicChantierReportPage, PublicSessionPage)
    pubPage,         \* the page mounted: "chantier" (/r/[slug]) or "session"
    pubSlug,         \* the route parameter slug
    pubData,         \* data (chantier page) / session (session page)
    pubLoading, pubErrMsg,
    pubRequests,     \* fetches of the public report awaiting their response
    pubIndex,        \* currentIndex of the session page
    pubVisits,       \* how many times a public page has been left for another
    \* ---- SAV inbox (SavSessionsListPage)
    unattached, chantiers, deletingKey, deleteError, seenSig,
    seenStorage,     \* localStorage[SEEN_STORAGE_KEY], parsed
    confirmDialog,   \* the window.confirm dialog of handleDeleteRow, [status, key]
    inboxServer,     \* the groups and chantiers the backend holds
    inboxCalls,      \* fetchOverview and handleDeleteRow calls awaiting a response
    \* ---- the session's notes_sav across a save and a load
    nsEdited,        \* notes and globalSavNote of the page that saves
    nsStored,        \* notes_sav of the session, as the backend holds it
    nsItems,         \* notes_sav_items of the session
    nsWritten,       \* nsStored is what saveNotesToBackend sent
    nsLoaded,        \* notes and globalSavNote the load effect sets
    \* ---- SAV detail page: the visuals of the notes
    assetCalls,      \* uploads and deletions of visuals awaiting their response
    \* ---- SAV detail page: the context of the chantier
    isEditingContext, draftInstallerName, draftReferenceChantier,
    contextSaves,    \* saveEditContext calls awaiting the response of their PATCH
    chantierContext, \* chantier.context
    \* ---- SAV diagnostic page: the drafts of the photos and their saves
    sessSelectedPhotoId, \* selectedPhotoId
    sessDrafts,      \* drafts, by photo id
    draftSaveTimers, \* the module's draftSaveTimers: per key, the timeouts outstanding
    draftPosts       \* POST .../draft requests of savePhotoDraftToServer in flight

aggVars == <<aggSessions, aggResult>>
visVars == <<visInput, visResult>>
formVars == <<products, np, ns, em, c, p, s, ivData,
              availableGroups, isLoadingSteps, stepsError, selectedSteps,
              stepsInFlight, stepsIssued>>
contactVars == <<contactQuery, contactResults, showResults, blockSearch,
                 isLoadingContacts, contactPhone, matchingCandidates,
                 selectedUserData, isLookupLoading, lookupError,
                 contactTimer, contactInFlight, contactIssued, lookupInFlight>>
genVars == <<formVars, contactVars>>
savVars == <<savKey, savLoads, loading, error, detail, loadedSessionId, chantierMeta,
             chantierPhotoIdMap, includeMap, draftSaves, notes, activeNoteId, noteText,
             notePhotos, toast, nowMs, notesSaveTimer, notesSaves,
             globalSavNote, chantier, publishing, publishCalls>>
sessVars == <<sessLoading, sessDetail, sessPublishing, sessToast, sessPublishCalls>>
pubVars == <<pubPage, pubSlug, pubData, pubLoading, pubErrMsg, pubRequests, pubIndex,
             pubVisits>>
inboxVars == <<unattached, chantiers, deletingKey, deleteError, seenSig, seenStorage,
               confirmDialog, inboxServer, inboxCalls>>
noteStoreVars == <<nsEdited, nsStored, nsItems, nsWritten, nsLoaded>>
assetVars == <<assetCalls>>
ctxVars == <<isEditingContext, draftInstallerName, draftReferenceChantier, contextSaves,
             chantierContext>>
draftVars == <<sessSelectedPhotoId, sessDrafts, draftSaveTimers, draftPosts>>
extVars == <<noteStoreVars, assetVars, ctxVars, draftVars>>
pageVars == <<sessVars, pubVars, inboxVars, extVars>>
vars == <<aggVars, visVars, genVars, savVars, pageVars>>

(***************************************************************************)
(* Text helpers (JavaScript String methods).                               *)
(***************************************************************************)
RECURSIVE TrimStart(_)
\* String.prototype.trimStart on the modelled alphabet (" " is the whitespace).
TrimStart(str) ==
    IF str # <<>> /\ Head(str) = " " THEN TrimStart(Tail(str)) ELSE str

RECURSIVE TrimEnd(_)
TrimEnd(str) ==
    IF str # <<>> /\ str[Len(str)] = " "
    THEN TrimEnd(SubSeq(str, 1, Len(str) - 1))
    ELSE str

\* String.prototype.trim
Trim(str) == TrimEnd(TrimStart(str))

LowerChar(ch) ==
    CASE ch = "A" -> "a"
      [] ch = "B" -> "b"
      [] ch = "P" -> "p"
      [] ch = "H" -> "h"
      [] OTHER -> ch

\* String.prototype.toLowerCase
ToLowerCase(str) == [i \in 1..Len(str) |-> LowerChar(str[i])]

DigitChar(d) ==
    CASE d = 0 -> "0" [] d = 1 -> "1" [] d = 2 -> "2" [] d = 3 -> "3"
      [] d = 4 -> "4" [] d = 5 -> "5" [] d = 6 -> "6" [] d = 7 -> "7"
      [] d = 8 -> "8" [] OTHER -> "9"

RECURSIVE NumStr(_)
\* String(k) for a non-negative integer k (template literal `${k}`).
NumStr(k) ==
    IF k < 10 THEN <<DigitChar(k)>>
    ELSE NumStr(k \div 10) \o <<DigitChar(k % 10)>>

IsDigit(ch) == ch \in {"0", "1", "2", "3", "4", "5", "6", "7", "8", "9"}

DigitVal(ch) ==
    CASE ch = "0" -> 0 [] ch = "1" -> 1 [] ch = "2" -> 2 [] ch = "3" -> 3
      [] ch = "4" -> 4 [] ch = "5" -> 5 [] ch = "6" -> 6 [] ch = "7" -> 7
      [] ch = "8" -> 8 [] OTHER -> 9

\* The set of sequences over S of length at most n.
SeqUpTo(S, n) == UNION {[1..k -> S] : k \in 0..n}

\* The elements of a sequence.
Range(seq) == {seq[i] : i \in 1..Len(seq)}

RECURSIVE Count(_, _)
\* How many entries of seq equal x.
Count(x, seq) ==
    IF seq = <<>> THEN 0
    ELSE (IF Head(seq) = x THEN 1 ELSE 0) + Count(x, Tail(seq))

(***************************************************************************)
(* buildChantierAggregatedPhotos (SAV detail page).                        *)
(* A session is [session_id, created_at, updated_at, photos]; a missing    *)
(* timestamp is 0, which is what the comparator substitutes for it.  A     *)
(* photo is represented by its id.  idMap is a function from output ids    *)
(* to [session_id, photo_id].  No composite can equal a property that a    *)
(* plain object inherits: those either hold no "__" or start with it,      *)
(* while a composite has a non-empty session id before its first "__".     *)
(***************************************************************************)
MaxAggSessions == 2
MaxAggPhotos == 3

IdSep == <<"_", "_">>

SidA == <<"a">>
SidAB == <<"a", "_", "_", "b">>
PidB == <<"b">>
PidBB == <<"b", "_", "_", "b">>
PidB2 == <<"b", "_", "_", "2">>

AggSessionPool ==
    { [session_id |-> SidA, created_at |-> 2, updated_at |-> 0, photos |-> <<>>],
      [session_id |-> SidAB, created_at |-> 1, updated_at |-> 0, photos |-> <<>>],
      [session_id |-> <<>>, created_at |-> 1, updated_at |-> 1, photos |-> <<>>] }

AggPhotoIdPool == {<<>>, PidB, PidBB, PidB2}

EmptyMap == [x \in {} |-> x]

\* The comparator of orderedSessions: created_at, then updated_at.
CompareSessions(a, b) ==
    IF a.created_at # b.created_at
    THEN a.created_at - b.created_at
    ELSE a.updated_at - b.updated_at

RECURSIVE InsertSession(_, _)
\* sess placed after every entry that does not compare greater (a stable sort).
InsertSession(sorted, sess) ==
    IF sorted = <<>> THEN <<sess>>
    ELSE IF CompareSessions(Head(sorted), sess) <= 0
         THEN <<Head(sorted)>> \o InsertSession(Tail(sorted), sess)
         ELSE <<sess>> \o sorted

RECURSIVE OrderedSessions(_)
\* [...sessions].sort(comparator): Array.prototype.sort is stable.
OrderedSessions(sessions) ==
    IF sessions = <<>> THEN <<>>
    ELSE InsertSession(OrderedSessions(SubSeq(sessions, 1, Len(sessions) - 1)),
                       sessions[Len(sessions)])

RECURSIVE FinalId(_, _, _, _)
\* The while loop: suffix __2, __3, ... until the id is not a key of idMap.
FinalId(idMap, composite, finalId, k) ==
    IF finalId \in DOMAIN idMap
    THEN FinalId(idMap, composite, composite \o IdSep \o NumStr(k), k + 1)
    ELSE finalId

\* A plausible slip: the collision loop left out, so a later photo with the
\* same composite overwrites the idMap entry and repeats the id.
AggAddPhotoNoSuffix(acc, sid, pid) ==
    IF sid = <<>> \/ pid = <<>> THEN acc
    ELSE LET composite == sid \o IdSep \o pid
         IN [photos |-> Append(acc.photos,
                               [id |-> composite, session_id |-> sid, photo_id |-> pid]),
             idMap |-> (composite :> [session_id |-> sid, photo_id |-> pid]) @@ acc.idMap]

\* A plausible slip: the photo keeps its own id, without the session prefix.
AggAddPhotoNoNamespace(acc, sid, pid) ==
    IF sid = <<>> \/ pid = <<>> THEN acc
    ELSE LET finalId == FinalId(acc.idMap, pid, pid, 2)
         IN [photos |-> Append(acc.photos,
                               [id |-> finalId, session_id |-> sid, photo_id |-> pid]),
             idMap |-> acc.idMap @@ (finalId :> [session_id |-> sid, photo_id |-> pid])]

\* The body of the inner loop for one photo p of session s.  An output photo
\* is [id, session_id, photo_id]: its id, __session_id and __photo_id.
AggAddPhoto(acc, sid, pid) ==
    IF sid = <<>> \/ pid = <<>> THEN acc
    ELSE LET composite == sid \o IdSep \o pid
             finalId == FinalId(acc.idMap, composite, composite, 2)
         IN [photos |-> Append(acc.photos,
                               [id |-> finalId, session_id |-> sid, photo_id |-> pid]),
             idMap |-> acc.idMap @@ (finalId :> [session_id |-> sid, photo_id |-> pid])]

RECURSIVE AggPhotosOf(_, _, _)
AggPhotosOf(acc, sid, photos) ==
    IF photos = <<>> THEN acc
    ELSE AggPhotosOf(AggAddPhoto(acc, sid, Head(photos)), sid, Tail(photos))

RECURSIVE AggSessionsOf(_, _)
AggSessionsOf(acc, ordered) ==
    IF ordered = <<>> THEN acc
    ELSE AggSessionsOf(AggPhotosOf(acc, Head(ordered).session_id, Head(ordered).photos),
                       Tail(ordered))

buildChantierAggregatedPhotos(sessions) ==
    AggSessionsOf([photos |-> <<>>, idMap |-> EmptyMap], OrderedSessions(sessions))

RECURSIVE AggTotalPhotos(_)
AggTotalPhotos(sessions) ==
    IF sessions = <<>> THEN 0
    ELSE Len(Head(sessions).photos) + AggTotalPhotos(Tail(sessions))

AggIdle == /\ aggSessions = <<>>
           /\ aggResult = [called |-> FALSE, photos |-> <<>>, idMap |-> EmptyMap]

VisIdle == /\ visInput = [fn |-> "none"]
           /\ visResult = [called |-> FALSE, value |-> FALSE]

\* The caller's argument grows by one session ...
AggAddSession ==
    /\ ~aggResult.called
    /\ Len(aggSessions) < MaxAggSessions
    /\ \E sess \in AggSessionPool : aggSessions' = Append(aggSessions, sess)
    /\ UNCHANGED <<aggResult, visVars, genVars, savVars, pageVars>>

\* ... or by one photo in its last session.
AggAddInputPhoto ==
    /\ ~aggResult.called
    /\ aggSessions # <<>>
    /\ AggTotalPhotos(aggSessions) < MaxAggPhotos
    /\ \E pid \in AggPhotoIdPool :
         aggSessions' = [aggSessions EXCEPT ![Len(aggSessions)].photos = Append(@, pid)]
    /\ UNCHANGED <<aggResult, visVars, genVars, savVars, pageVars>>

\* The call.
AggCall ==
    /\ ~aggResult.called
    /\ aggResult' = [called |-> TRUE] @@ buildChantierAggregatedPhotos(aggSessions)
    /\ UNCHANGED <<aggSessions, visVars, genVars, savVars, pageVars>>


\* ---- what the claims about the aggregation speak of

RECURSIVE AggInputPairs(_)
\* Every input photo as <<session id, photo id>>, in input order.
AggInputPairs(sessions) ==
    IF sessions = <<>> THEN <<>>
    ELSE [i \in 1..Len(Head(sessions).photos) |->
             <<Head(sessions).session_id, Head(sessions).photos[i]>>]
         \o AggInputPairs(Tail(sessions))

AggOutputPairs == [i \in 1..Len(aggResult.photos) |->
                     <<aggResult.photos[i].session_id, aggResult.photos[i].photo_id>>]

AggValidPair(pr) == pr[1] # <<>> /\ pr[2] # <<>>

AggComposite(pr) == pr[1] \o IdSep \o pr[2]

\* No two valid input photos produce the same composite.
AggNoCollision ==
    LET inp == AggInputPairs(aggSessions)
    IN \A i, j \in 1..Len(inp) :
         (i # j /\ AggValidPair(inp[i]) /\ AggValidPair(inp[j]))
            => AggComposite(inp[i]) # AggComposite(inp[j])

\* C1: after the call, every input photo with a non-empty session id and photo
\* id appears exactly once in the output (and nothing else does); when no two
\* photos produce the same composite, each output id is <session>__<photo> and
\* idMap sends it back to the session id and photo id it came from.
C1_Namespaced ==
    aggResult.called =>
      LET inp == AggInputPairs(aggSessions)
      IN /\ \A pr \in Range(inp) \cup Range(AggOutputPairs) :
              Count(pr, AggOutputPairs) = (IF AggValidPair(pr) THEN Count(pr, inp) ELSE 0)
         /\ AggNoCollision =>
              \A i \in 1..Len(aggResult.photos) :
                 LET ph == aggResult.photos[i]
                 IN /\ ph.id = ph.session_id \o IdSep \o ph.photo_id
                    /\ ph.id \in DOMAIN aggResult.idMap
                    /\ aggResult.idMap[ph.id] =
                          [session_id |-> ph.session_id, photo_id |-> ph.photo_id]

\* Witness of C1: two sessions that both hold photo b were aggregated into
\* a__b and a__b__b (session "a__b", photo "b"), with no collision.
C1_Witness ==
    /\ aggResult.called
    /\ AggNoCollision
    /\ Len(aggResult.photos) = 2
    /\ {aggResult.photos[1].session_id, aggResult.photos[2].session_id} = {SidA, SidAB}
    /\ aggResult.photos[1].photo_id = PidB
    /\ aggResult.photos[2].photo_id = PidB

\* C2: the output ids are pairwise distinct and are exactly the keys of idMap,
\* whatever the input (repeated ids, ids that contain "__").
C2_UniqueKeys ==
    aggResult.called =>
      /\ \A i, j \in 1..Len(aggResult.photos) :
            i # j => aggResult.photos[i].id # aggResult.photos[j].id
      /\ {aggResult.photos[i].id : i \in 1..Len(aggResult.photos)} = DOMAIN aggResult.idMap

\* Witness of C2: two different (session, photo) pairs with the same composite
\* were aggregated, and the second one received a suffix.
C2_Witness ==
    /\ aggResult.called
    /\ \E i, j \in 1..Len(aggResult.photos) :
          /\ i < j
          /\ aggResult.photos[i].session_id # aggResult.photos[j].session_id
          /\ AggComposite(<<aggResult.photos[i].session_id, aggResult.photos[i].photo_id>>)
               = AggComposite(<<aggResult.photos[j].session_id, aggResult.photos[j].photo_id>>)
          /\ aggResult.photos[j].id = aggResult.photos[i].id \o IdSep \o <<"2">>

(***************************************************************************)
(* shouldShowGroup / shouldShowField (link generator).                     *)
(* ivData is a function from field keys to text; a key outside its domain  *)
(* is an undefined property.  A showIf is [present, sourceField, ...]:     *)
(* present = FALSE is a missing or null showIf.  A mapTo is [present, map].*)
(* The value alphabet holds no ".", "e" or "I", so parseFloat reads an     *)
(* optional sign and the leading decimal digits.                           *)
(***************************************************************************)
MaxAllowed == 2

IvGet(iv, key) == IF key \in DOMAIN iv THEN iv[key] ELSE <<>>

\* A plausible slip: the allow-list compared without trimming its entries.
shouldShowGroupRawAllowed(group, iv) ==
    IF ~group.showIf.present \/ group.showIf.sourceField = "" THEN TRUE
    ELSE LET current == Trim(ToLowerCase(IvGet(iv, group.showIf.sourceField)))
         IN IF current = <<>> THEN FALSE
            ELSE \E i \in 1..Len(group.showIf.allowedValues) :
                    ToLowerCase(group.showIf.allowedValues[i]) = current

shouldShowGroup(group, iv) ==
    IF ~group.showIf.present \/ group.showIf.sourceField = "" THEN TRUE
    ELSE LET current == Trim(ToLowerCase(IvGet(iv, group.showIf.sourceField)))
         IN IF current = <<>> THEN FALSE
            ELSE \E i \in 1..Len(group.showIf.allowedValues) :
                    Trim(ToLowerCase(group.showIf.allowedValues[i])) = current

RECURSIVE DigitsPrefix(_)
\* The longest prefix of decimal digits.
DigitsPrefix(str) ==
    IF str # <<>> /\ IsDigit(Head(str)) THEN <<Head(str)>> \o DigitsPrefix(Tail(str))
    ELSE <<>>

RECURSIVE DigitsValue(_)
DigitsValue(ds) ==
    IF ds = <<>> THEN 0
    ELSE 10 * DigitsValue(SubSeq(ds, 1, Len(ds) - 1)) + DigitVal(ds[Len(ds)])

\* parseFloat: [nan, value].  Leading whitespace is skipped, a sign is read,
\* then digits; anything after them is ignored; no digit gives NaN.
ParseFloat(str) ==
    LET t == TrimStart(str)
        neg == t # <<>> /\ Head(t) = "-"
        body == IF t # <<>> /\ Head(t) \in {"-", "+"} THEN Tail(t) ELSE t
        ds == DigitsPrefix(body)
    IN IF ds = <<>> THEN [nan |-> TRUE, value |-> 0]
       ELSE [nan |-> FALSE, value |-> IF neg THEN 0 - DigitsValue(ds) ELSE DigitsValue(ds)]

\* rule.match(/^>=\s*([0-9]+)$/): [matched, n] with n = parseFloat(m[1]).
RuleMatch(rule) ==
    IF Len(rule) >= 2 /\ rule[1] = ">" /\ rule[2] = "="
    THEN LET rest == TrimStart(SubSeq(rule, 3, Len(rule)))
         IN IF rest # <<>> /\ DigitsPrefix(rest) = rest
            THEN [matched |-> TRUE, n |-> DigitsValue(rest)]
            ELSE [matched |-> FALSE, n |-> 0]
    ELSE [matched |-> FALSE, n |-> 0]

\* allIntro.find((f) => f.key === sourceField): [found, field].
FindIntro(allIntro, key) ==
    LET hits == {i \in 1..Len(allIntro) : allIntro[i].key = key}
    IN IF hits = {} THEN [found |-> FALSE]
       ELSE [found |-> TRUE,
             field |-> allIntro[CHOOSE i \in hits : \A j \in hits : i <= j]]

\* The value of `numeric` before the rule is applied: [isNull, value].
FieldNumeric(valRaw, allIntro, sourceField) ==
    LET src == FindIntro(allIntro, sourceField)
        mapped == src.found /\ src.field.mapTo.present
                    /\ valRaw \in DOMAIN src.field.mapTo.map
        parsed == ParseFloat(valRaw)
    IN IF mapped THEN [isNull |-> FALSE, value |-> src.field.mapTo.map[valRaw]]
       ELSE IF ~parsed.nan THEN [isNull |-> FALSE, value |-> parsed.value]
       ELSE [isNull |-> TRUE, value |-> 0]

\* A plausible slip: the numeric parse tried before the categorical mapping.
shouldShowFieldParseFirst(field, iv, allIntro) ==
    IF ~field.showIf.present THEN TRUE
    ELSE LET valRaw == IvGet(iv, field.showIf.sourceField)
             src == FindIntro(allIntro, field.showIf.sourceField)
             parsed == ParseFloat(valRaw)
             m == RuleMatch(field.showIf.rule)
         IN IF Trim(valRaw) = <<>> THEN FALSE
            ELSE IF ~parsed.nan
                 THEN (IF m.matched THEN parsed.value >= m.n ELSE TRUE)
            ELSE IF src.found /\ src.field.mapTo.present
                      /\ valRaw \in DOMAIN src.field.mapTo.map
                 THEN (IF m.matched THEN src.field.mapTo.map[valRaw] >= m.n ELSE TRUE)
            ELSE FALSE

shouldShowField(field, iv, allIntro) ==
    IF ~field.showIf.present THEN TRUE
    ELSE LET valRaw == IvGet(iv, field.showIf.sourceField)
             numeric == FieldNumeric(valRaw, allIntro, field.showIf.sourceField)
             m == RuleMatch(field.showIf.rule)
         IN IF Trim(valRaw) = <<>> THEN FALSE
            ELSE IF numeric.isNull THEN FALSE
            ELSE IF m.matched THEN numeric.value >= m.n
            ELSE TRUE

\* ---- the inputs of the two predicates

NoShowIf == [present |-> FALSE]
NoMapTo == [present |-> FALSE]

VisGroupValuePool == {<<>>, <<" ">>, <<"a">>, <<"A">>, <<" ", "a", " ">>, <<"b">>}

VisGroupShowIfs ==
    {NoShowIf} \cup
    { [present |-> TRUE, sourceField |-> sf, allowedValues |-> av] :
        sf \in {"", "iv1"}, av \in SeqUpTo(VisGroupValuePool, MaxAllowed) }

VisGroupIvDatas == {EmptyMap} \cup { ("iv1" :> v) : v \in VisGroupValuePool }

VisGroupInputs ==
    { [fn |-> "group",
       group |-> [label |-> "G", category |-> "E", keys |-> <<"k1">>, showIf |-> sh],
       ivData |-> iv] : sh \in VisGroupShowIfs, iv \in VisGroupIvDatas }

RuleGe2 == <<">", "=", "2">>
RuleGe1Spaced == <<">", "=", " ", "1">>
RuleGe0 == <<">", "=", "0">>
RuleGe12 == <<">", "=", "1", "2">>
RuleGt2 == <<">", "2">>

VisRulePool == {RuleGe2, RuleGe1Spaced, RuleGe0, RuleGe12, RuleGt2}

VisFieldValuePool ==
    { <<>>, <<" ">>, <<"2">>, <<"1">>, <<" ", "2">>, <<"2", "x">>, <<"x">>,
      <<"x", "2">>, <<"-", "1">>, <<"1", "2">>, <<"-">> }

VisMapToPool ==
    { NoMapTo,
      [present |-> TRUE, map |-> (<<"x">> :> 3)],
      [present |-> TRUE, map |-> (<<"2">> :> 0) @@ (<<" ">> :> 5) @@ (<<"x", "2">> :> 1)] }

VisFieldShowIfs ==
    {NoShowIf} \cup
    { [present |-> TRUE, sourceField |-> "iv1", rule |-> r] : r \in VisRulePool }

VisFieldUnderTest(sh) == [key |-> "iv2", showIf |-> sh, mapTo |-> NoMapTo]

VisAllIntros(sh) ==
    { <<VisFieldUnderTest(sh)>> } \cup
    { <<[key |-> "iv1", showIf |-> NoShowIf, mapTo |-> mt], VisFieldUnderTest(sh)>> :
        mt \in VisMapToPool }

VisFieldIvDatas == {EmptyMap} \cup { ("iv1" :> v) : v \in VisFieldValuePool }

VisFieldInputs ==
    UNION { { [fn |-> "field", field |-> VisFieldUnderTest(sh), allIntro |-> ai,
               ivData |-> iv] : ai \in VisAllIntros(sh), iv \in VisFieldIvDatas }
            : sh \in VisFieldShowIfs }

VisCallGroup ==
    /\ visInput.fn = "group"
    /\ ~visResult.called
    /\ visResult' = [called |-> TRUE,
                     value |-> shouldShowGroup(visInput.group, visInput.ivData)]
    /\ UNCHANGED <<visInput, aggVars, genVars, savVars, pageVars>>

VisCallField ==
    /\ visInput.fn = "field"
    /\ ~visResult.called
    /\ visResult' = [called |-> TRUE,
                     value |-> shouldShowField(visInput.field, visInput.ivData,
                                               visInput.allIntro)]
    /\ UNCHANGED <<visInput, aggVars, genVars, savVars, pageVars>>


\* ---- what the claims about the two predicates speak of

VisGroupCalled == visResult.called /\ visInput.fn = "group"

\* The source value and the allow-list, lower-cased and trimmed.
VisGroupCurrent ==
    Trim(ToLowerCase(IvGet(visInput.ivData, visInput.group.showIf.sourceField)))
VisGroupMatches ==
    \E i \in 1..Len(visInput.group.showIf.allowedValues) :
       Trim(ToLowerCase(visInput.group.showIf.allowedValues[i])) = VisGroupCurrent

\* C3 as claimed: for every group with a non-empty showIf.allowedValues the
\* result is true iff the normalised source value is non-empty and equals a
\* normalised allow-listed value.
C3_AsClaimed ==
    (VisGroupCalled /\ visInput.group.showIf.present
        /\ visInput.group.showIf.allowedValues # <<>>)
      => (visResult.value <=> (VisGroupCurrent # <<>> /\ VisGroupMatches))

\* C3 (amended): the same, for every group whose showIf names a non-empty
\* sourceField (a showIf without one is no rule at all: the group is shown).
C3_AllowList ==
    /\ (VisGroupCalled /\ visInput.group.showIf.present
          /\ visInput.group.showIf.sourceField # "")
         => (visResult.value <=> (VisGroupCurrent # <<>> /\ VisGroupMatches))
    /\ (VisGroupCalled /\ visInput.group.showIf.present
          /\ visInput.group.showIf.sourceField = "")
         => visResult.value

\* Witness of C3: the value "A" was matched against the allow-listed " a ".
C3_Witness ==
    /\ VisGroupCalled
    /\ visInput.group.showIf.present
    /\ visInput.group.showIf.sourceField = "iv1"
    /\ visInput.group.showIf.allowedValues = << <<"b">>, <<" ", "a", " ">> >>
    /\ visInput.ivData = ("iv1" :> <<"A">>)
    /\ visResult.value

VisFieldCalled == visResult.called /\ visInput.fn = "field"

\* The rules of the form >=N among the inputs, with their N.
VisRuleN == (RuleGe2 :> 2) @@ (RuleGe1Spaced :> 1) @@ (RuleGe0 :> 0) @@ (RuleGe12 :> 12)

VisFieldRaw == IvGet(visInput.ivData, visInput.field.showIf.sourceField)

\* The source field's mapTo entry for the current value, if there is one.
VisFieldHasEntry ==
    /\ Len(visInput.allIntro) = 2
    /\ visInput.allIntro[1].mapTo.present
    /\ VisFieldRaw \in DOMAIN visInput.allIntro[1].mapTo.map

\* C4: for a rule >=N the field is visible iff the source value is not blank
\* and its number (the mapTo entry if there is one, else the numeric parse, if
\* the value has one) is at least N.
C4_NumericRule ==
    (VisFieldCalled /\ visInput.field.showIf.present
        /\ visInput.field.showIf.rule \in DOMAIN VisRuleN)
      => LET n == VisRuleN[visInput.field.showIf.rule]
         IN visResult.value <=>
              /\ Trim(VisFieldRaw) # <<>>
              /\ IF VisFieldHasEntry
                 THEN visInput.allIntro[1].mapTo.map[VisFieldRaw] >= n
                 ELSE ~ParseFloat(VisFieldRaw).nan /\ ParseFloat(VisFieldRaw).value >= n

\* Witness of C4: the value "x", mapped to 3, made a field with rule >=2 visible.
C4_Witness ==
    /\ VisFieldCalled
    /\ visInput.field.showIf.present
    /\ visInput.field.showIf.rule = RuleGe2
    /\ VisFieldRaw = <<"x">>
    /\ VisFieldHasEntry
    /\ visResult.value

(***************************************************************************)
(* Link generator page (GenerateurPage).                                   *)
(* What the backend serves: two products, their sheets and intro fields,   *)
(* the step groups of each (product, sheet), contact candidates, lookups.  *)
(* The example-photo preview (previewUrl, previewError, previewLoading,    *)
(* previewTitle, previewKey) and copiedWhatsUrl are not modelled: no       *)
(* handler reads them to decide anything.                                  *)
(***************************************************************************)
MaxStepsRequests == 2
MaxContactRequests == 2
MaxLookups == 1

CodePH == <<"p", "h">>
LabelPH == <<"P", "_", "H">>
CodeB == <<"b">>
LabelB == <<"B">>
SheetS1 == <<"1">>
SheetS2 == <<"2">>

IntroIv1 == [key |-> "iv1", showIf |-> NoShowIf, mapTo |-> NoMapTo]
\* An intro field the backend keys "c", shown once iv1 is at least 2.
IntroC == [key |-> "c",
           showIf |-> [present |-> TRUE, sourceField |-> "iv1", rule |-> RuleGe2],
           mapTo |-> NoMapTo]

Catalogue ==
    << [code |-> CodePH, label |-> LabelPH,
        feuilles |-> << [sheetName |-> SheetS1, introFields |-> <<IntroIv1>>],
                        [sheetName |-> SheetS2, introFields |-> <<IntroIv1, IntroC>>] >>],
       [code |-> CodeB, label |-> LabelB,
        feuilles |-> <<>>] >>

CatE == <<"E">>
CatAutres == <<"A", "u", "t", "r", "e", "s">>

GroupG1 == [label |-> "G1", category |-> CatE, keys |-> <<"k1", "k2">>,
            showIf |-> NoShowIf]
GroupG2 == [label |-> "G2", category |-> <<" ">>, keys |-> <<"k2", "k3">>,
            showIf |-> [present |-> TRUE, sourceField |-> "iv1",
                        allowedValues |-> << <<"a">> >>]]
GroupG3 == [label |-> "G3", category |-> CatE, keys |-> <<"k4">>,
            showIf |-> NoShowIf]

\* data.groups of GET /steps?produit=..&sheet=..
StepsBackend(prodCode, sheetName) ==
    IF prodCode = CodePH /\ sheetName = SheetS1 THEN <<GroupG1, GroupG2>>
    ELSE IF prodCode = CodePH /\ sheetName = SheetS2 THEN <<GroupG3>>
    ELSE <<>>

TextPool == {<<>>, <<" ">>, <<" ", "x">>}
IvValuePool == {<<>>, <<" ", "A">>, <<"2">>}

QueryA == <<"a">>
QueryAB == <<"a", "b">>
QueryABC == <<"a", "b", "c">>
QueryPool == {<<>>, QueryA, QueryAB, QueryABC}

Cand1 == [name |-> QueryAB, company |-> <<" ", "x">>, email |-> <<" ", "x">>,
          phone |-> <<"7">>]
Cand2 == [name |-> <<>>, company |-> <<>>, email |-> <<" ", "x">>, phone |-> <<>>]

\* data.results of GET /contacts/search?q=..
ContactsBackend(q) ==
    IF q = QueryAB THEN <<Cand1, Cand2>>
    ELSE IF q = QueryABC THEN <<Cand2>>
    ELSE <<>>

NoUser == [present |-> FALSE]
User1 == [present |-> TRUE, user_id |-> <<"7">>, chantiers |-> << <<"x">> >>]
User2 == [present |-> TRUE, user_id |-> <<>>, chantiers |-> <<>>]
\* data.candidates of GET /people/lookup
LookupCandidatePool == {<<>>, <<User1>>, <<User1, User2>>}

NoTimer == [armed |-> FALSE, q |-> <<>>]
NoError == ""
StepsErrorMessage == "Impossible de recuperer les etapes pour cette feuille."
LookupErrorMessage == "Impossible de recuperer l'historique."

FormIdle ==
    /\ products = [pending |-> TRUE, list |-> <<>>]
    /\ np = <<>> /\ ns = <<>> /\ em = <<>> /\ c = <<>>
    /\ p = <<>> /\ s = <<>>
    /\ ivData = EmptyMap
    /\ availableGroups = <<>>
    /\ isLoadingSteps = FALSE
    /\ stepsError = NoError
    /\ selectedSteps = <<>>
    /\ stepsInFlight = <<>>
    /\ stepsIssued = 0

ContactIdle ==
    /\ contactQuery = <<>>
    /\ contactResults = <<>>
    /\ showResults = FALSE
    /\ blockSearch = FALSE
    /\ isLoadingContacts = FALSE
    /\ contactPhone = <<>>
    /\ matchingCandidates = <<>>
    /\ selectedUserData = NoUser
    /\ isLookupLoading = FALSE
    /\ lookupError = NoError
    /\ contactTimer = NoTimer
    /\ contactInFlight = <<>>
    /\ contactIssued = 0
    /\ lookupInFlight = 0

GenIdle == FormIdle /\ ContactIdle

\* ---- derived values (useMemo)

\* products.find((prod) => prod.code === p): [found, product]
currentProduct ==
    LET hits == {i \in 1..Len(products.list) : products.list[i].code = p}
    IN IF hits = {} THEN [found |-> FALSE]
       ELSE [found |-> TRUE,
             product |-> products.list[CHOOSE i \in hits : \A j \in hits : i <= j]]

\* currentProduct.feuilles.find((f) => f.sheetName === s): [found, sheet]
currentSheet ==
    IF ~currentProduct.found THEN [found |-> FALSE]
    ELSE LET fs == currentProduct.product.feuilles
             hits == {i \in 1..Len(fs) : fs[i].sheetName = s}
         IN IF hits = {} THEN [found |-> FALSE]
            ELSE [found |-> TRUE, sheet |-> fs[CHOOSE i \in hits : \A j \in hits : i <= j]]

RECURSIVE FilterGroups(_, _)
FilterGroups(groups, iv) ==
    IF groups = <<>> THEN <<>>
    ELSE (IF shouldShowGroup(Head(groups), iv) THEN <<Head(groups)>> ELSE <<>>)
         \o FilterGroups(Tail(groups), iv)

\* availableGroups.filter((g) => shouldShowGroup(g, ivData))
visibleGroups == FilterGroups(availableGroups, ivData)

\* g.category?.trim() || "Autres"
CategoryOf(g) == IF Trim(g.category) = <<>> THEN CatAutres ELSE Trim(g.category)

RECURSIVE BucketKeys(_, _)
\* (groupsByCategory.get(cat) || []).flatMap((b) => b.keys)
BucketKeys(groups, cat) ==
    IF groups = <<>> THEN <<>>
    ELSE (IF CategoryOf(Head(groups)) = cat THEN Head(groups).keys ELSE <<>>)
         \o BucketKeys(Tail(groups), cat)

\* A plausible slip: the keys pushed without the includes test.
PushAll(next, all) == next \o all

RECURSIVE PushMissing(_, _)
\* for (const k of all) if (!next.includes(k)) next.push(k)
PushMissing(next, all) ==
    IF all = <<>> THEN next
    ELSE PushMissing(IF Head(all) \in Range(next) THEN next ELSE Append(next, Head(all)),
                     Tail(all))

RECURSIVE FilterOut(_, _)
\* prev.filter((k) => !all.includes(k))
FilterOut(prev, all) ==
    IF prev = <<>> THEN <<>>
    ELSE (IF Head(prev) \in all THEN <<>> ELSE <<Head(prev)>>) \o FilterOut(Tail(prev), all)

\* The step groups list is rendered (its rows and buttons can be clicked).
GroupsRendered ==
    /\ p # <<>> /\ s # <<>>
    /\ ~isLoadingSteps
    /\ stepsError = NoError
    /\ visibleGroups # <<>>

RECURSIVE ReplaceUnderscores(_)
\* .replace(/_/g, " ")
ReplaceUnderscores(str) ==
    IF str = <<>> THEN <<>>
    ELSE <<(IF Head(str) = "_" THEN " " ELSE Head(str))>> \o ReplaceUnderscores(Tail(str))

RECURSIVE CollapseSpaces(_)
\* .replace(/\s+/g, " ")
CollapseSpaces(str) ==
    IF str = <<>> THEN <<>>
    ELSE IF Head(str) = " " /\ Len(str) > 1 /\ str[2] = " " THEN CollapseSpaces(Tail(str))
    ELSE <<Head(str)>> \o CollapseSpaces(Tail(str))

\* (currentProduct?.label ?? p).toLowerCase().replace(/_/g," ").trim().replace(/\s+/g," ")
legacyP ==
    CollapseSpaces(Trim(ReplaceUnderscores(ToLowerCase(
        IF currentProduct.found THEN currentProduct.product.label ELSE p))))

\* A plausible slip: append in place of set, keeping an earlier entry of the name.
ParamsAppend(params, name, value) == Append(params, <<name, value>>)

\* URLSearchParams.set on a list of <<name, value>>: the first entry of that
\* name takes the value, any other entry of that name is dropped; else append.
ParamsSet(params, name, value) ==
    LET hits == {i \in 1..Len(params) : params[i][1] = name}
    IN IF hits = {} THEN Append(params, <<name, value>>)
       ELSE LET first == CHOOSE i \in hits : \A j \in hits : i <= j
                RECURSIVE Rebuild(_)
                Rebuild(i) ==
                    IF i > Len(params) THEN <<>>
                    ELSE (IF i = first THEN << <<name, value>> >>
                          ELSE IF i \in hits THEN <<>>
                          ELSE <<params[i]>>) \o Rebuild(i + 1)
            IN Rebuild(1)

ParamsSetIf(cond, params, name, value) ==
    IF cond THEN ParamsSet(params, name, value) ELSE params

\* selectedSteps.join(","), kept as the list of its comma-separated parts.
JoinKeys(keys) == keys

\* Object.entries(ivData) in insertion order; the intro fields are set in any
\* order, and the parameter names of the modelled sheets differ, so the order
\* of the two entries does not change which parameter holds which value.
IvEntryKeys == <<"iv1", "c">>

RECURSIVE ParamsSetIv(_, _)
ParamsSetIv(params, keys) ==
    IF keys = <<>> THEN params
    ELSE LET k == Head(keys)
             v == IvGet(ivData, k)
         IN ParamsSetIv(ParamsSetIf(k \in DOMAIN ivData /\ Trim(v) # <<>>,
                                    params, k, Trim(v)),
                        Tail(keys))

\* The URLSearchParams of generatedUrl (`/plan?${params.toString()}`).
generatedParams ==
    LET p1 == ParamsSetIf(c # <<>>, <<>>, "c", c)
        p2 == ParamsSetIf(p # <<>>, p1, "p", legacyP)
        p3 == ParamsSetIf(s # <<>>, p2, "s", s)
        p4 == ParamsSetIf(selectedSteps # <<>>, p3, "steps", JoinKeys(selectedSteps))
        p5 == ParamsSetIf(np # <<>>, p4, "np", np)
        p6 == ParamsSetIf(ns # <<>>, p5, "ns", ns)
        p7 == ParamsSetIf(em # <<>>, p6, "em", em)
    IN ParamsSetIv(p7, IvEntryKeys)

generatedUrl == [path |-> "/plan", params |-> generatedParams]

\* `https://wa.me/33744866654?text=${encodeURIComponent(generatedUrl)}`;
\* generatedUrl is never the empty string (it starts with "/plan?").
whatsappUrl == [base |-> "https://wa.me/33744866654", text |-> generatedUrl]
whatsappUrlEmpty == FALSE

\* A plausible slip: the email left out of the readiness test.
isReadyWithoutEmail ==
    /\ Trim(ns) # <<>> /\ Trim(np) # <<>>
    /\ Trim(c) # <<>> /\ Trim(p) # <<>> /\ Trim(s) # <<>>
    /\ Len(selectedSteps) > 0

\* ns.trim() && np.trim() && em.trim() && c.trim() && p.trim() && s.trim()
\*   && selectedSteps.length > 0, as the truth value the render tests.
isReady ==
    /\ Trim(ns) # <<>> /\ Trim(np) # <<>> /\ Trim(em) # <<>>
    /\ Trim(c) # <<>> /\ Trim(p) # <<>> /\ Trim(s) # <<>>
    /\ Len(selectedSteps) > 0

\* disabled={!isReady || !whatsappUrl} on the copy button
copyDisabled == ~isReady \/ whatsappUrlEmpty
\* onClick of the open link: if (!isReady || !whatsappUrl) e.preventDefault()
openPrevented == ~isReady \/ whatsappUrlEmpty

\* ---- handlers of the form: products, text fields, product / sheet, steps

\* useEffect(() => setProducts(await fetchProducts()), []): the list, or []
\* when the request fails.
ProductsLoaded ==
    /\ products.pending
    /\ \E ok \in BOOLEAN :
         products' = [pending |-> FALSE, list |-> IF ok THEN Catalogue ELSE <<>>]
    /\ UNCHANGED <<np, ns, em, c, p, s, ivData, availableGroups, isLoadingSteps,
                   stepsError, selectedSteps, stepsInFlight, stepsIssued>>
    /\ UNCHANGED <<aggVars, visVars, contactVars, savVars, pageVars>>

\* onChange of the company, email and jobsite inputs (the client input edits
\* contactQuery; np is only set by handleSelectContact and handleResetAll).
SetNs ==
    /\ \E v \in TextPool : v # ns /\ ns' = v
    /\ UNCHANGED <<products, np, em, c, p, s, ivData, availableGroups, isLoadingSteps,
                   stepsError, selectedSteps, stepsInFlight, stepsIssued>>
    /\ UNCHANGED <<aggVars, visVars, contactVars, savVars, pageVars>>

SetEm ==
    /\ \E v \in TextPool : v # em /\ em' = v
    /\ UNCHANGED <<products, np, ns, c, p, s, ivData, availableGroups, isLoadingSteps,
                   stepsError, selectedSteps, stepsInFlight, stepsIssued>>
    /\ UNCHANGED <<aggVars, visVars, contactVars, savVars, pageVars>>

SetC ==
    /\ \E v \in TextPool : v # c /\ c' = v
    /\ UNCHANGED <<products, np, ns, em, p, s, ivData, availableGroups, isLoadingSteps,
                   stepsError, selectedSteps, stepsInFlight, stepsIssued>>
    /\ UNCHANGED <<aggVars, visVars, contactVars, savVars, pageVars>>

\* The step-loading effect on [p, s], run after a handler left the pair at
\* (newP, newS): with an empty p or s it clears the groups, the selection and
\* the error; else it raises the loading flag and issues GET /steps.
StepsEffect(newP, newS, loadingAfterHandler) ==
    /\ availableGroups' = <<>>
    /\ selectedSteps' = <<>>
    /\ stepsError' = NoError
    /\ IF newP = <<>> \/ newS = <<>>
       THEN /\ isLoadingSteps' = loadingAfterHandler
            /\ UNCHANGED <<stepsInFlight, stepsIssued>>
       ELSE /\ isLoadingSteps' = TRUE
            /\ stepsIssued' = stepsIssued + 1
            /\ stepsInFlight' =
                 Append(stepsInFlight, [p |-> newP, s |-> newS, seq |-> stepsIssued + 1])

\* The product <select>: its options are "" and the loaded products' codes.
handleProductChange ==
    /\ \E newCode \in {<<>>} \cup {products.list[i].code : i \in 1..Len(products.list)} :
         /\ newCode # p
         /\ p' = newCode
    /\ s' = <<>>
    /\ ivData' = EmptyMap
    /\ StepsEffect(p', <<>>, FALSE)
    /\ UNCHANGED <<products, np, ns, em, c>>
    /\ UNCHANGED <<aggVars, visVars, contactVars, savVars, pageVars>>

\* The sheet <select>: disabled without a current product; its options are ""
\* and the current product's sheets.
handleSheetChange ==
    /\ currentProduct.found
    /\ \E newSheet \in {<<>>} \cup
            {currentProduct.product.feuilles[i].sheetName :
                i \in 1..Len(currentProduct.product.feuilles)} :
         /\ newSheet # s
         /\ newSheet # <<>> => stepsIssued < MaxStepsRequests
         /\ s' = newSheet
    /\ ivData' = EmptyMap
    /\ StepsEffect(p, s', FALSE)
    /\ UNCHANGED <<products, np, ns, em, c, p>>
    /\ UNCHANGED <<aggVars, visVars, contactVars, savVars, pageVars>>

\* The i-th entry removed from a list of requests in flight.
RemoveAt(seq, i) == SubSeq(seq, 1, i - 1) \o SubSeq(seq, i + 1, Len(seq))

\* The continuation of the step-loading effect once fetchSteps resolves, for
\* any request in flight: groups on success, an error on a bad status or a
\* network failure.  The effect holds no cancelled flag and no request id:
\* whichever response arrives is applied.
StepsResponse ==
    /\ \E i \in 1..Len(stepsInFlight), ok \in BOOLEAN :
         LET req == stepsInFlight[i]
         IN /\ stepsInFlight' = RemoveAt(stepsInFlight, i)
            /\ isLoadingSteps' = FALSE
            /\ selectedSteps' = <<>>
            /\ IF ok
               THEN /\ availableGroups' = StepsBackend(req.p, req.s)
                    /\ UNCHANGED stepsError
               ELSE /\ availableGroups' = <<>>
                    /\ stepsError' = StepsErrorMessage
    /\ UNCHANGED <<products, np, ns, em, c, p, s, ivData, stepsIssued>>
    /\ UNCHANGED <<aggVars, visVars, contactVars, savVars, pageVars>>

\* onChange of a rendered intro field: the fields of the current sheet that
\* shouldShowField lets through.
handleIvChange ==
    /\ currentSheet.found
    /\ \E i \in 1..Len(currentSheet.sheet.introFields), value \in IvValuePool :
         LET field == currentSheet.sheet.introFields[i]
         IN /\ shouldShowField(field, ivData, currentSheet.sheet.introFields)
            /\ value # IvGet(ivData, field.key)
            /\ ivData' = (field.key :> value) @@ ivData
    /\ UNCHANGED <<products, np, ns, em, c, p, s, availableGroups, isLoadingSteps,
                   stepsError, selectedSteps, stepsInFlight, stepsIssued>>
    /\ UNCHANGED <<aggVars, visVars, contactVars, savVars, pageVars>>

\* Click on a rendered group row.
toggleGroup ==
    /\ GroupsRendered
    /\ \E i \in 1..Len(visibleGroups) :
         LET all == visibleGroups[i].keys
         IN selectedSteps' =
              IF \A k \in Range(all) : k \in Range(selectedSteps)
              THEN FilterOut(selectedSteps, Range(all))
              ELSE PushMissing(selectedSteps, all)
    /\ UNCHANGED <<products, np, ns, em, c, p, s, ivData, availableGroups,
                   isLoadingSteps, stepsError, stepsInFlight, stepsIssued>>
    /\ UNCHANGED <<aggVars, visVars, contactVars, savVars, pageVars>>

\* "Tout" of a rendered category.
selectAllInCategory ==
    /\ GroupsRendered
    /\ \E i \in 1..Len(visibleGroups) :
         selectedSteps' =
            PushMissing(selectedSteps, BucketKeys(visibleGroups, CategoryOf(visibleGroups[i])))
    /\ UNCHANGED <<products, np, ns, em, c, p, s, ivData, availableGroups,
                   isLoadingSteps, stepsError, stepsInFlight, stepsIssued>>
    /\ UNCHANGED <<aggVars, visVars, contactVars, savVars, pageVars>>

\* "Aucun" of a rendered category.
clearAllInCategory ==
    /\ GroupsRendered
    /\ \E i \in 1..Len(visibleGroups) :
         selectedSteps' =
            FilterOut(selectedSteps,
                      Range(BucketKeys(visibleGroups, CategoryOf(visibleGroups[i]))))
    /\ UNCHANGED <<products, np, ns, em, c, p, s, ivData, availableGroups,
                   isLoadingSteps, stepsError, stepsInFlight, stepsIssued>>
    /\ UNCHANGED <<aggVars, visVars, contactVars, savVars, pageVars>>

\* ---- handlers of the contact search and the lookup

\* The contact-search effect on [contactQuery, blockSearch], run after a
\* handler left them at (q, b) and the other three at (res, show, isLoading).
\* Unchanged dependencies: nothing runs.  Otherwise the previous run's cleanup
\* clears the pending timer, then: blocked -> hide the list; a query shorter
\* than 2 -> empty the results; else arm a 250 ms timer that captures q.
ContactEffect(q, b, res, show, isLoading) ==
    /\ contactQuery' = q
    /\ blockSearch' = b
    /\ IF q = contactQuery /\ b = blockSearch
       THEN /\ contactTimer' = contactTimer
            /\ contactResults' = res
            /\ showResults' = show
            /\ isLoadingContacts' = isLoading
       ELSE IF b
       THEN /\ contactTimer' = NoTimer
            /\ contactResults' = res
            /\ showResults' = FALSE
            /\ isLoadingContacts' = FALSE
       ELSE IF Len(Trim(q)) < 2
       THEN /\ contactTimer' = NoTimer
            /\ contactResults' = <<>>
            /\ showResults' = show
            /\ isLoadingContacts' = FALSE
       ELSE /\ contactTimer' = [armed |-> TRUE, q |-> q]
            /\ contactResults' = res
            /\ showResults' = show
            /\ isLoadingContacts' = isLoading

\* onChange of the contact input.
ContactQueryChange ==
    /\ \E v \in QueryPool :
         /\ v # contactQuery
         /\ ContactEffect(v, FALSE, contactResults, TRUE, isLoadingContacts)
    /\ UNCHANGED <<contactPhone, matchingCandidates, selectedUserData, isLookupLoading,
                   lookupError, contactInFlight, contactIssued, lookupInFlight>>
    /\ UNCHANGED <<aggVars, visVars, formVars, savVars, pageVars>>

\* The debounce timer fires: the loading flag is raised and the search for
\* the captured query is issued.
ContactTimerFires ==
    /\ contactTimer.armed
    /\ contactIssued < MaxContactRequests
    /\ contactTimer' = NoTimer
    /\ isLoadingContacts' = TRUE
    /\ contactIssued' = contactIssued + 1
    /\ contactInFlight' =
         Append(contactInFlight, [q |-> contactTimer.q, seq |-> contactIssued + 1])
    /\ UNCHANGED <<contactQuery, contactResults, showResults, blockSearch, contactPhone,
                   matchingCandidates, selectedUserData, isLookupLoading, lookupError,
                   lookupInFlight>>
    /\ UNCHANGED <<aggVars, visVars, formVars, savVars, pageVars>>

\* The continuation of the timer callback once fetchContacts resolves, for any
\* search in flight: the results, or [] on a bad status or a network failure.
\* Clearing the timer does not reach a callback already running: whichever
\* response arrives is applied.
ContactsResponse ==
    /\ \E i \in 1..Len(contactInFlight), ok \in BOOLEAN :
         LET req == contactInFlight[i]
         IN /\ contactInFlight' = RemoveAt(contactInFlight, i)
            /\ contactResults' = (IF ok THEN ContactsBackend(req.q) ELSE <<>>)
            /\ showResults' = TRUE
            /\ isLoadingContacts' = FALSE
    /\ UNCHANGED <<contactQuery, blockSearch, contactPhone, matchingCandidates,
                   selectedUserData, isLookupLoading, lookupError, contactTimer,
                   contactIssued, lookupInFlight>>
    /\ UNCHANGED <<aggVars, visVars, formVars, savVars, pageVars>>

\* Click on a row of the rendered results list (showResults and a non-empty
\* contactResults), up to the `await fetchLookup(...)`.
handleSelectContact ==
    /\ showResults
    /\ contactResults # <<>>
    /\ lookupInFlight < MaxLookups
    /\ \E i \in 1..Len(contactResults) :
         LET cand == contactResults[i]
         IN /\ np' = cand.name
            /\ ns' = cand.company
            /\ em' = cand.email
            /\ contactPhone' = cand.phone
            /\ ContactEffect(cand.name, TRUE, contactResults, FALSE, isLoadingContacts)
    /\ matchingCandidates' = <<>>
    /\ selectedUserData' = NoUser
    /\ lookupError' = NoError
    /\ isLookupLoading' = TRUE
    /\ lookupInFlight' = lookupInFlight + 1
    /\ UNCHANGED <<contactInFlight, contactIssued>>
    /\ UNCHANGED <<products, c, p, s, ivData, availableGroups, isLoadingSteps,
                   stepsError, selectedSteps, stepsInFlight, stepsIssued>>
    /\ UNCHANGED <<aggVars, visVars, savVars, pageVars>>

\* handleSelectContact after `await fetchLookup(...)`: an error, or candidates.
LookupResponse ==
    /\ lookupInFlight > 0
    /\ lookupInFlight' = lookupInFlight - 1
    /\ isLookupLoading' = FALSE
    /\ \/ /\ lookupError' = LookupErrorMessage
          /\ UNCHANGED <<matchingCandidates, selectedUserData, contactPhone>>
       \/ \E candidates \in LookupCandidatePool :
            /\ matchingCandidates' = candidates
            /\ selectedUserData' =
                 IF Len(candidates) = 1 THEN candidates[1] ELSE selectedUserData
            /\ contactPhone' =
                 IF Len(candidates) = 1 /\ candidates[1].user_id # <<>>
                 THEN candidates[1].user_id ELSE contactPhone
            /\ UNCHANGED lookupError
    /\ UNCHANGED <<contactQuery, contactResults, showResults, blockSearch,
                   isLoadingContacts, contactTimer, contactInFlight, contactIssued>>
    /\ UNCHANGED <<aggVars, visVars, formVars, savVars, pageVars>>

\* Click on one of several possible contacts.
ChooseCandidate ==
    /\ ~isLookupLoading /\ lookupError = NoError
    /\ Len(matchingCandidates) > 1 /\ ~selectedUserData.present
    /\ \E i \in 1..Len(matchingCandidates) :
         /\ selectedUserData' = matchingCandidates[i]
         /\ contactPhone' = IF matchingCandidates[i].user_id # <<>>
                            THEN matchingCandidates[i].user_id ELSE contactPhone
    /\ UNCHANGED <<contactQuery, contactResults, showResults, blockSearch,
                   isLoadingContacts, matchingCandidates, isLookupLoading, lookupError,
                   contactTimer, contactInFlight, contactIssued, lookupInFlight>>
    /\ UNCHANGED <<aggVars, visVars, formVars, savVars, pageVars>>

\* Click on an existing jobsite of the selected contact, or "+ Nouveau chantier".
ChooseChantier ==
    /\ ~isLookupLoading /\ lookupError = NoError /\ selectedUserData.present
    /\ \E ref \in {<<>>} \cup Range(selectedUserData.chantiers) : c' = ref
    /\ UNCHANGED <<products, np, ns, em, p, s, ivData, availableGroups, isLoadingSteps,
                   stepsError, selectedSteps, stepsInFlight, stepsIssued>>
    /\ UNCHANGED <<aggVars, visVars, contactVars, savVars, pageVars>>

\* "Effacer tout", with the two effects its state changes trigger.
handleResetAll ==
    /\ ContactEffect(<<>>, FALSE, <<>>, FALSE, FALSE)
    /\ contactPhone' = <<>>
    /\ np' = <<>> /\ ns' = <<>> /\ em' = <<>>
    /\ matchingCandidates' = <<>>
    /\ selectedUserData' = NoUser
    /\ isLookupLoading' = FALSE
    /\ lookupError' = NoError
    /\ c' = <<>> /\ p' = <<>> /\ s' = <<>>
    /\ ivData' = EmptyMap
    /\ StepsEffect(<<>>, <<>>, FALSE)
    /\ UNCHANGED <<products, contactInFlight, contactIssued, lookupInFlight>>
    /\ UNCHANGED <<aggVars, visVars, savVars, pageVars>>

\* ---- the generated link: readiness and parameters

\* The six required text values are non-blank after trimming and at least one
\* step key is selected.
AllRequiredFilled ==
    /\ \A field \in {ns, np, em, c, p, s} : Trim(field) # <<>>
    /\ selectedSteps # <<>>

\* C5: in every reachable state the copy button and the open link are enabled
\* exactly when company, contact name, email, jobsite reference, product and
\* sheet are non-blank after trimming and at least one step is selected.
C5_EnabledIffReady ==
    /\ ~copyDisabled <=> AllRequiredFilled
    /\ ~openPrevented <=> AllRequiredFilled

\* Both sides of C5: the controls enabled on a ready form.
C5_Witness ==
    /\ AllRequiredFilled /\ ~copyDisabled /\ ~openPrevented
    /\ \E field \in {ns, em, c} : Trim(field) # field

\* The values the query string holds under a parameter name.
ParamValues(name) ==
    {generatedParams[i][2] : i \in {j \in 1..Len(generatedParams) : generatedParams[j][1] = name}}

ParamNames == {generatedParams[i][1] : i \in 1..Len(generatedParams)}

\* An intro field holds a non-blank value.
IvFilled(key) == key \in DOMAIN ivData /\ Trim(ivData[key]) # <<>>

\* C6 as stated: on a ready form c, p, s, np, ns, em carry the entered values,
\* steps the selected keys, and every non-blank intro field its entered value
\* under its own key.
C6_AsClaimed ==
    AllRequiredFilled =>
        /\ ParamValues("c") = {c}
        /\ ParamValues("p") = {p}
        /\ ParamValues("s") = {s}
        /\ ParamValues("np") = {np}
        /\ ParamValues("ns") = {ns}
        /\ ParamValues("em") = {em}
        /\ ParamValues("steps") = {JoinKeys(selectedSteps)}
        /\ \A key \in DOMAIN ivData : IvFilled(key) => ParamValues(key) = {ivData[key]}

\* The value of a form field in the link: its own, unless a non-blank intro
\* field has the same key, whose trimmed value then replaces it.
LinkValue(name, own) == IF IvFilled(name) THEN Trim(ivData[name]) ELSE own

\* C6, amended: on a ready form the link holds exactly one value per name;
\* s, np, ns, em and c carry the entered value untrimmed, p carries the
\* selected product's label lower-cased with underscores as spaces, trimmed and
\* its runs of spaces collapsed, steps the selected keys in selection order;
\* a non-blank intro field appears under its key with its value trimmed, and
\* replaces the form field of the same name; blank intro fields are left out.
C6_LinkParams ==
    AllRequiredFilled =>
        /\ ParamValues("c") = {LinkValue("c", c)}
        /\ ParamValues("p") =
             {LinkValue("p", CollapseSpaces(Trim(ReplaceUnderscores(ToLowerCase(
                                 currentProduct.product.label)))))}
        /\ ParamValues("s") = {LinkValue("s", s)}
        /\ ParamValues("np") = {LinkValue("np", np)}
        /\ ParamValues("ns") = {LinkValue("ns", ns)}
        /\ ParamValues("em") = {LinkValue("em", em)}
        /\ ParamValues("steps") = {LinkValue("steps", JoinKeys(selectedSteps))}
        /\ \A key \in DOMAIN ivData : IvFilled(key) => ParamValues(key) = {Trim(ivData[key])}
        /\ ParamNames = {"c", "p", "s", "np", "ns", "em", "steps"}
                          \cup {key \in DOMAIN ivData : IvFilled(key)}

\* A ready form whose link differs from the entered values in each of the
\* three ways: the product label is not the code, an intro value is trimmed,
\* and the intro field keyed "c" replaces the jobsite reference.
C6_Witness ==
    /\ AllRequiredFilled
    /\ ParamValues("p") # {p}
    /\ IvFilled("iv1")
    /\ IvFilled("c") /\ Trim(ivData["c"]) # ivData["c"] /\ Trim(ivData["c"]) # c

\* ---- stale responses

\* C9 as stated: a response to a /steps request that is not the most recent
\* one, arriving once the most recent response has been applied, changes none
\* of the step groups, the selected steps, the steps error and the loading
\* flag.
C9_StaleStepsDiscarded ==
    [][\A i \in 1..Len(stepsInFlight) :
          ( /\ stepsInFlight' = RemoveAt(stepsInFlight, i)
            /\ stepsInFlight[i].seq < stepsIssued
            /\ \A j \in 1..Len(stepsInFlight) : stepsInFlight[j].seq # stepsIssued )
          => UNCHANGED <<availableGroups, selectedSteps, stepsError, isLoadingSteps>>]_vars

\* C10 as stated: a response to a contact search older than the latest one
\* issued, arriving once the latest response has been applied, does not
\* replace the results (so the results held once every request has completed
\* are those of the most recent query), and does not reopen the results list
\* once a contact has been selected.
C10_StaleContactsDiscarded ==
    [][\A i \in 1..Len(contactInFlight) :
          ( /\ contactInFlight' = RemoveAt(contactInFlight, i)
            /\ contactInFlight[i].seq < contactIssued
            /\ \A j \in 1..Len(contactInFlight) : contactInFlight[j].seq # contactIssued )
          => /\ contactResults' = contactResults
             /\ blockSearch => showResults' = showResults]_vars

\* ---- the selection of steps

\* The keys of the groups of a list.
KeysOfGroups(groups) == UNION {Range(groups[i].keys) : i \in 1..Len(groups)}

\* C28: every selected step key belongs to a group that is visible under
\* the current intro-field values.
C28_SelectedStepsVisible ==
    \A i \in 1..Len(selectedSteps) : selectedSteps[i] \in KeysOfGroups(visibleGroups)

\* C29: selectedSteps holds no key twice, and every key it holds is a key
\* of a group of availableGroups.
C29_SelectionWellFormed ==
    /\ \A i \in 1..Len(selectedSteps), j \in 1..Len(selectedSteps) :
          selectedSteps[i] = selectedSteps[j] => i = j
    /\ \A i \in 1..Len(selectedSteps) : selectedSteps[i] \in KeysOfGroups(availableGroups)

\* Both groups of the first sheet are selected: the key they share is held
\* once, with the two keys that belong to one group each.
C29_Witness ==
    /\ availableGroups = <<GroupG1, GroupG2>>
    /\ visibleGroups = availableGroups
    /\ Len(selectedSteps) = 3
    /\ Range(selectedSteps) = {"k1", "k2", "k3"}
    /\ stepsInFlight = <<>>

(***************************************************************************)
(* SAV detail page (SavSessionDetailPage): load, include flags, notes.     *)
(* Photo and session ids are texts; a note id is <<prefix, random, ms>>,   *)
(* the three parts uid joins with "_" (the hexadecimal renderings of the   *)
(* random number and of the timestamp are one-to-one, and contain no "_"). *)
(* Modelled state: the load, the photos and include flags, the notes and   *)
(* their editor, the toast.  The preview selections (selectedPhotoId,      *)
(* selectedAssetId), the note timestamps and the meta fields are left out. *)
(***************************************************************************)

MaxLoads == 2
MaxDraftSaves == 2
MaxNotes == 2
MaxNotesSaves == 1

KeyS == <<"s">>
KeyC == <<"c">>
Pid1 == <<"1">>
SavSidA == <<"a">>
SavSidB == <<"b">>

\* Values of Math.random() and of Date.now() in the runs explored.
RandomPool == {0, 1}
ClockValues == {1, 2}

NoNote == <<>>
NoToast == [present |-> FALSE]
NoDetail == [present |-> FALSE]
NoMeta == [kind |-> "none", chantier_id |-> <<>>, session_count |-> 0]
NoChantier == [present |-> FALSE]
Toast(type, message) == [present |-> TRUE, type |-> type, message |-> message]

BlankNoteMessage == "Ecris au moins une recommandation SAV dans la note."
NoteCreatedMessage == "Note SAV creee."
NoteUpdatedMessage == "Note SAV mise a jour."
NoteDeletedMessage == "Note supprimee."
LoadErrorMessage == "Erreur API"

\* A note stored by an earlier visit, with a repeated photo id.
NoteOld == [id |-> <<"note", 0, 0>>, text |-> <<"o">>, photo_ids |-> <<Pid1, Pid1>>,
            assets |-> <<>>]

\* The sessions of the two items of the backend; photo_drafts holds the
\* photos whose include_in_report is a boolean.
SessS == [session_id |-> KeyS, created_at |-> 1, updated_at |-> 1,
          photos |-> <<Pid1, Pid1>>, photo_drafts |-> (Pid1 :> TRUE),
          notes |-> <<NoteOld>>, global |-> <<"g">>]
SessA == [session_id |-> SavSidA, created_at |-> 2, updated_at |-> 1,
          photos |-> <<Pid1>>, photo_drafts |-> (Pid1 :> FALSE), notes |-> <<>>,
          global |-> <<>>]
SessB == [session_id |-> SavSidB, created_at |-> 1, updated_at |-> 2,
          photos |-> <<Pid1>>, photo_drafts |-> (Pid1 :> FALSE), notes |-> <<>>,
          global |-> <<>>]

\* The body of GET /sav/item/{key}.
SavBackend(itemKey) ==
    IF itemKey = KeyC
    THEN [kind |-> "chantier", chantier_id |-> KeyC, sessions |-> <<SessA, SessB>>,
          chantierNotes |-> <<>>, chantierGlobal |-> <<>>]
    ELSE [kind |-> "unattached_session", chantier_id |-> <<>>, sessions |-> <<SessS>>,
          chantierNotes |-> <<>>, chantierGlobal |-> <<>>]

\* pickMostRecentSession: the first session of the list sorted by updated_at,
\* then created_at, both descending (a stable sort).
pickMostRecentSession(sessions) ==
    LET Before(a, b) == \/ a.updated_at > b.updated_at
                        \/ a.updated_at = b.updated_at /\ a.created_at > b.created_at
        best == CHOOSE i \in 1..Len(sessions) :
                    /\ \A j \in 1..Len(sessions) : ~Before(sessions[j], sessions[i])
                    /\ \A j \in 1..(i - 1) : Before(sessions[i], sessions[j])
    IN sessions[best]

\* The notes as the backend stores them and as saveNotesToBackend sends them:
\* the notes list and the general note.
NotesPayload(noteList, global) == [notes |-> noteList, global |-> global]

\* What the load effect computes from a successful response: the photos shown
\* ([id, session_id, photo_id], the origin being the chosen session itself
\* outside chantier mode), the id map, the include flags, the chantier object,
\* the notes and the general note.
SavLoaded(data) ==
    LET chosen == pickMostRecentSession(data.sessions)
        agg == buildChantierAggregatedPhotos(data.sessions)
        finalPhotos ==
            IF data.kind = "chantier" THEN agg.photos
            ELSE [i \in 1..Len(chosen.photos) |->
                    [id |-> chosen.photos[i], session_id |-> chosen.session_id,
                     photo_id |-> chosen.photos[i]]]
        idMap == IF data.kind = "chantier" THEN agg.idMap ELSE EmptyMap
        IncludeOf(ph) ==
            IF ph.session_id = chosen.session_id /\ ph.photo_id \in DOMAIN chosen.photo_drafts
            THEN chosen.photo_drafts[ph.photo_id]
            ELSE TRUE
    IN [detail |-> [present |-> TRUE, session_id |-> chosen.session_id,
                    photos |-> [i \in 1..Len(finalPhotos) |-> finalPhotos[i].id],
                    notes_sav |-> NotesPayload(chosen.notes, chosen.global),
                    published |-> FALSE],
        loadedSessionId |-> chosen.session_id,
        chantierMeta |-> [kind |-> data.kind, chantier_id |-> data.chantier_id,
                          session_count |-> Len(data.sessions)],
        chantier |-> IF data.kind = "chantier"
                     THEN [present |-> TRUE,
                           outputs |-> NotesPayload(data.chantierNotes, data.chantierGlobal),
                           published |-> FALSE]
                     ELSE NoChantier,
        chantierPhotoIdMap |-> idMap,
        includeMap |-> [id \in {finalPhotos[i].id : i \in 1..Len(finalPhotos)} |->
                          IncludeOf(finalPhotos[CHOOSE i \in 1..Len(finalPhotos) :
                                                   /\ finalPhotos[i].id = id
                                                   /\ \A j \in (i + 1)..Len(finalPhotos) :
                                                        finalPhotos[j].id # id])],
        notes |-> IF data.kind = "chantier" THEN data.chantierNotes ELSE chosen.notes,
        globalSavNote |-> IF data.kind = "chantier" THEN data.chantierGlobal
                          ELSE chosen.global]

\* ---- derived values

\* detail?.photos || [], as the list of photo ids
SavPhotoIds == IF detail.present THEN detail.photos ELSE <<>>

\* includeMap[id] !== false
IncludeFlag(map, id) == ~(id \in DOMAIN map /\ map[id] = FALSE)

RECURSIVE FilterIncluded(_, _)
FilterIncluded(ids, map) ==
    IF ids = <<>> THEN <<>>
    ELSE (IF IncludeFlag(map, Head(ids)) THEN <<Head(ids)>> ELSE <<>>)
         \o FilterIncluded(Tail(ids), map)

\* ids.filter((id) => includeMap[id] !== false)
includedPhotoIds == FilterIncluded(SavPhotoIds, includeMap)

isChantierMode == chantierMeta.kind = "chantier" /\ chantierMeta.chantier_id # <<>>

\* chantierMeta.kind === "chantier" && (chantierMeta.session_count || 0) > 1
isMultiSessionChantier == chantierMeta.kind = "chantier" /\ chantierMeta.session_count > 1

\* loadedSessionId || key
effectiveSessionId == IF loadedSessionId # <<>> THEN loadedSessionId ELSE savKey

\* The page body is rendered: !loading && !error && detail
SavRendered == ~loading /\ error = NoError /\ detail.present

\* ---- the load effect, on [key]

\* The state once the page is mounted on an item: the useState initial values,
\* then the load effect up to its `await fetch(/sav/item/{key})`.
SavMounted(itemKey) ==
    /\ savKey = itemKey
    /\ savLoads = <<[key |-> itemKey, cancelled |-> FALSE]>>
    /\ loading = TRUE
    /\ error = NoError
    /\ detail = NoDetail
    /\ loadedSessionId = <<>>
    /\ chantierMeta = NoMeta
    /\ chantierPhotoIdMap = EmptyMap
    /\ includeMap = EmptyMap
    /\ draftSaves = <<>>
    /\ notes = <<>>
    /\ activeNoteId = NoNote
    /\ noteText = <<>>
    /\ notePhotos = <<>>
    /\ toast = NoToast
    /\ nowMs = 1
    /\ notesSaveTimer = 0
    /\ notesSaves = <<>>
    /\ globalSavNote = <<>>
    /\ chantier = NoChantier
    /\ publishing = FALSE
    /\ publishCalls = <<>>

SavIdle == SavMounted(KeyS)

\* startNewNote, as the values it gives (activeNoteId, noteText, notePhotos)
\* for a list of included photo ids.
StartNewNote(included) ==
    [activeNoteId |-> NoNote, noteText |-> <<>>,
     notePhotos |-> SubSeq(included, 1, IF Len(included) < 3 THEN Len(included) ELSE 3)]

\* The effect on [detail], run when detail was given a new value while the
\* note editor stood at (active, text, linked) and the notes at noteList:
\* with a detail, no note and an untouched editor it calls startNewNote.
DetailEffect(newDetail, noteList, included, active, text, linked) ==
    IF newDetail.present /\ noteList = <<>> /\ active = NoNote /\ text = <<>> /\ linked = <<>>
    THEN StartNewNote(included)
    ELSE [activeNoteId |-> active, noteText |-> text, notePhotos |-> linked]

\* A plausible slip: the earlier timeout is not cleared.
DebounceWithoutClear(pending) == pending + 1

\* The function useDebouncedCallback returns, called with `pending` timeouts
\* outstanding: the outstanding one is cleared and a new one is set, so one
\* timeout is outstanding afterwards.
useDebouncedCallback(pending) == 1

\* The route parameter changes: the cleanup cancels the load in progress and
\* the effect runs again, up to its await.
SavKeyChange ==
    /\ Len(savLoads) < MaxLoads
    /\ \E newKey \in {KeyS, KeyC} :
         /\ newKey # savKey
         /\ savKey' = newKey
         /\ savLoads' = Append([i \in 1..Len(savLoads) |->
                                  [savLoads[i] EXCEPT !.cancelled = TRUE]],
                               [key |-> newKey, cancelled |-> FALSE])
    /\ loading' = TRUE
    /\ error' = NoError
    /\ detail' = NoDetail
    /\ loadedSessionId' = <<>>
    /\ chantierMeta' = NoMeta
    /\ chantierPhotoIdMap' = EmptyMap
    /\ includeMap' = EmptyMap
    /\ chantier' = NoChantier
    /\ UNCHANGED <<draftSaves, notes, activeNoteId, noteText, notePhotos, toast, nowMs,
                   notesSaveTimer, notesSaves>>
    /\ UNCHANGED <<globalSavNote, publishing, publishCalls>>
    /\ UNCHANGED <<aggVars, visVars, genVars, pageVars>>

\* The load effect after its await, for any load in flight: nothing when the
\* load was cancelled; an error; or the item, followed by the effects on
\* [detail] (startNewNote) and on [notes] (the autosave timer is armed).
SavLoadResponse ==
    /\ \E i \in 1..Len(savLoads), ok \in BOOLEAN :
         LET load == savLoads[i]
             got == SavLoaded(SavBackend(load.key))
             editor == DetailEffect(got.detail, got.notes,
                                    FilterIncluded(got.detail.photos, got.includeMap),
                                    activeNoteId, noteText, notePhotos)
         IN /\ savLoads' = RemoveAt(savLoads, i)
            /\ IF load.cancelled
               THEN UNCHANGED <<loading, error, detail, loadedSessionId, chantierMeta,
                                chantierPhotoIdMap, includeMap, notes, activeNoteId,
                                noteText, notePhotos, notesSaveTimer, globalSavNote,
                                chantier>>
               ELSE IF ~ok
               THEN /\ error' = LoadErrorMessage
                    /\ loading' = FALSE
                    /\ UNCHANGED <<detail, loadedSessionId, chantierMeta,
                                   chantierPhotoIdMap, includeMap, notes, activeNoteId,
                                   noteText, notePhotos, notesSaveTimer, globalSavNote,
                                   chantier>>
               ELSE /\ loading' = FALSE
                    /\ UNCHANGED error
                    /\ detail' = got.detail
                    /\ loadedSessionId' = got.loadedSessionId
                    /\ chantierMeta' = got.chantierMeta
                    /\ chantierPhotoIdMap' = got.chantierPhotoIdMap
                    /\ includeMap' = got.includeMap
                    /\ notes' = got.notes
                    /\ activeNoteId' = editor.activeNoteId
                    /\ noteText' = editor.noteText
                    /\ notePhotos' = editor.notePhotos
                    /\ globalSavNote' = got.globalSavNote
                    /\ chantier' = IF got.chantierMeta.kind = "chantier" THEN got.chantier
                                   ELSE chantier
                    /\ notesSaveTimer' = useDebouncedCallback(notesSaveTimer)
    /\ UNCHANGED <<savKey, draftSaves, toast, nowMs, notesSaves>>
    /\ UNCHANGED <<publishing, publishCalls>>
    /\ UNCHANGED <<aggVars, visVars, genVars, pageVars>>

\* ---- include flags

\* A plausible slip: the flag rolled back when the save fails.
DraftSaveRollback(map, save, ok) ==
    IF ok THEN map ELSE (save.ui_id :> ~save.include) @@ map

\* saveIncludeDraft after its await: the response is not read and a failure
\* is only logged, so the flags stay as they are.
DraftSaveOutcome(map, save, ok) == map

\* onChange of a photo's "Inclure" checkbox: the flag flips, and the draft of
\* the photo's origin session is posted.
toggleInclude ==
    /\ SavRendered
    /\ Len(draftSaves) < MaxDraftSaves
    /\ \E i \in 1..Len(SavPhotoIds) :
         LET photoId == SavPhotoIds[i]
             next == (photoId :> (photoId \in DOMAIN includeMap /\ includeMap[photoId] = FALSE))
                        @@ includeMap
             mapped == photoId \in DOMAIN chantierPhotoIdMap
         IN /\ includeMap' = next
            /\ draftSaves' =
                 Append(draftSaves,
                        [ui_id |-> photoId,
                         session_id |-> IF mapped THEN chantierPhotoIdMap[photoId].session_id
                                        ELSE effectiveSessionId,
                         photo_id |-> IF mapped THEN chantierPhotoIdMap[photoId].photo_id
                                      ELSE photoId,
                         include |-> IncludeFlag(next, photoId)])
    /\ UNCHANGED <<savKey, savLoads, loading, error, detail, loadedSessionId, chantierMeta,
                   chantierPhotoIdMap, notes, activeNoteId, noteText, notePhotos, toast,
                   nowMs, notesSaveTimer, notesSaves>>
    /\ UNCHANGED <<globalSavNote, chantier, publishing, publishCalls>>
    /\ UNCHANGED <<aggVars, visVars, genVars, pageVars>>

\* A draft POST completes, with success or failure.
DraftSaveDone ==
    /\ \E i \in 1..Len(draftSaves), ok \in BOOLEAN :
         /\ draftSaves' = RemoveAt(draftSaves, i)
         /\ includeMap' = DraftSaveOutcome(includeMap, draftSaves[i], ok)
    /\ UNCHANGED <<savKey, savLoads, loading, error, detail, loadedSessionId, chantierMeta,
                   chantierPhotoIdMap, notes, activeNoteId, noteText, notePhotos, toast,
                   nowMs, notesSaveTimer, notesSaves>>
    /\ UNCHANGED <<globalSavNote, chantier, publishing, publishCalls>>
    /\ UNCHANGED <<aggVars, visVars, genVars, pageVars>>

\* ---- notes

NoteTextPool == {<<>>, <<" ">>, <<" ", "x">>}

\* uid(prefix) when Math.random() gives rnd: `${prefix}_${random}_${Date.now()}`
uid(prefix, rnd) == <<prefix, rnd, nowMs>>

RECURSIVE FilterBoolean(_)
\* ids.filter(Boolean): the empty id is dropped
FilterBoolean(ids) ==
    IF ids = <<>> THEN <<>>
    ELSE (IF Head(ids) = <<>> THEN <<>> ELSE <<Head(ids)>>) \o FilterBoolean(Tail(ids))

RECURSIVE Dedupe(_)
\* Array.from(new Set(ids)): the first occurrence of each id, in order
Dedupe(ids) ==
    IF ids = <<>> THEN <<>>
    ELSE LET front == Dedupe(SubSeq(ids, 1, Len(ids) - 1))
             last == ids[Len(ids)]
         IN IF last \in Range(front) THEN front ELSE Append(front, last)

NoteIds(noteList) == {noteList[i].id : i \in 1..Len(noteList)}

\* A plausible slip: the text stored as typed, without trim().
UpsertTextUntrimmed(text) == text

\* (noteText || "").trim()
UpsertText(text) == Trim(text)

\* upsertNote as the values it computes from the editor and the notes when
\* Math.random() gives rnd: the notes, the active note, the toast, and
\* whether setNotes was called.
UpsertNote(rnd) ==
    LET cleanedText == UpsertText(noteText)
        cleanedPhotos == Dedupe(FilterBoolean(notePhotos))
        NewNote(id) == [id |-> id, text |-> cleanedText, photo_ids |-> cleanedPhotos,
                        assets |-> <<>>]
    IN IF cleanedText = <<>>
       THEN [notes |-> notes, activeNoteId |-> activeNoteId, saved |-> FALSE,
             toast |-> Toast("error", BlankNoteMessage)]
       ELSE IF activeNoteId # NoNote /\ activeNoteId \notin NoteIds(notes)
       THEN [notes |-> <<NewNote(activeNoteId)>> \o notes, activeNoteId |-> activeNoteId,
             saved |-> TRUE, toast |-> Toast("success", NoteCreatedMessage)]
       ELSE IF activeNoteId # NoNote
       THEN [notes |-> [i \in 1..Len(notes) |->
                          IF notes[i].id = activeNoteId
                          THEN [notes[i] EXCEPT !.text = cleanedText,
                                                !.photo_ids = cleanedPhotos]
                          ELSE notes[i]],
             activeNoteId |-> activeNoteId, saved |-> TRUE,
             toast |-> Toast("success", NoteUpdatedMessage)]
       ELSE [notes |-> <<NewNote(uid("note", rnd))>> \o notes,
             activeNoteId |-> uid("note", rnd), saved |-> TRUE,
             toast |-> Toast("success", NoteCreatedMessage)]

\* onChange of the note textarea.
SetNoteText ==
    /\ SavRendered
    /\ \E v \in NoteTextPool : v # noteText /\ noteText' = v
    /\ UNCHANGED <<savKey, savLoads, loading, error, detail, loadedSessionId, chantierMeta,
                   chantierPhotoIdMap, includeMap, draftSaves, notes, activeNoteId,
                   notePhotos, toast, nowMs, notesSaveTimer, notesSaves>>
    /\ UNCHANGED <<globalSavNote, chantier, publishing, publishCalls>>
    /\ UNCHANGED <<aggVars, visVars, genVars, pageVars>>

\* onChange of the general note textarea, with the effect on [globalSavNote]
\* that arms the autosave timer.
SetGlobalSavNote ==
    /\ SavRendered
    /\ \E v \in NoteTextPool : v # globalSavNote /\ globalSavNote' = v
    /\ notesSaveTimer' = useDebouncedCallback(notesSaveTimer)
    /\ UNCHANGED <<savKey, savLoads, loading, error, detail, loadedSessionId, chantierMeta,
                   chantierPhotoIdMap, includeMap, draftSaves, notes, activeNoteId,
                   noteText, notePhotos, toast, nowMs, notesSaves>>
    /\ UNCHANGED <<chantier, publishing, publishCalls>>
    /\ UNCHANGED <<aggVars, visVars, genVars, pageVars>>

\* Click on a photo chip of the note editor: the id leaves the set of linked
\* photos, or joins it at the end.
toggleNotePhoto ==
    /\ SavRendered
    /\ \E i \in 1..Len(SavPhotoIds) :
         LET pid == SavPhotoIds[i]
             set == Dedupe(notePhotos)
         IN notePhotos' = IF pid \in Range(set) THEN FilterOut(set, {pid})
                          ELSE Append(set, pid)
    /\ UNCHANGED <<savKey, savLoads, loading, error, detail, loadedSessionId, chantierMeta,
                   chantierPhotoIdMap, includeMap, draftSaves, notes, activeNoteId,
                   noteText, toast, nowMs, notesSaveTimer, notesSaves>>
    /\ UNCHANGED <<globalSavNote, chantier, publishing, publishCalls>>
    /\ UNCHANGED <<aggVars, visVars, genVars, pageVars>>

\* "+ Nouvelle note".
startNewNote ==
    /\ SavRendered
    /\ activeNoteId' = StartNewNote(includedPhotoIds).activeNoteId
    /\ noteText' = StartNewNote(includedPhotoIds).noteText
    /\ notePhotos' = StartNewNote(includedPhotoIds).notePhotos
    /\ UNCHANGED <<savKey, savLoads, loading, error, detail, loadedSessionId, chantierMeta,
                   chantierPhotoIdMap, includeMap, draftSaves, notes, toast, nowMs,
                   notesSaveTimer, notesSaves>>
    /\ UNCHANGED <<globalSavNote, chantier, publishing, publishCalls>>
    /\ UNCHANGED <<aggVars, visVars, genVars, pageVars>>

\* Click on a note of the list: notes.find((x) => x.id === id) is edited.
openNoteForEdit ==
    /\ SavRendered
    /\ \E i \in 1..Len(notes) :
         LET first == CHOOSE j \in 1..Len(notes) :
                         /\ notes[j].id = notes[i].id
                         /\ \A k \in 1..(j - 1) : notes[k].id # notes[i].id
         IN /\ activeNoteId' = notes[i].id
            /\ noteText' = notes[first].text
            /\ notePhotos' = notes[first].photo_ids
    /\ UNCHANGED <<savKey, savLoads, loading, error, detail, loadedSessionId, chantierMeta,
                   chantierPhotoIdMap, includeMap, draftSaves, notes, toast, nowMs,
                   notesSaveTimer, notesSaves>>
    /\ UNCHANGED <<globalSavNote, chantier, publishing, publishCalls>>
    /\ UNCHANGED <<aggVars, visVars, genVars, pageVars>>

\* "Creer la note" / "Mettre a jour / creer", with the effect on [notes] that
\* arms the autosave timer when setNotes was called.
upsertNote ==
    /\ SavRendered
    /\ \E rnd \in RandomPool :
         LET out == UpsertNote(rnd)
         IN /\ Len(out.notes) <= MaxNotes
            /\ notes' = out.notes
            /\ activeNoteId' = out.activeNoteId
            /\ toast' = out.toast
            /\ notesSaveTimer' = IF out.saved THEN useDebouncedCallback(notesSaveTimer)
                                  ELSE notesSaveTimer
    /\ UNCHANGED <<savKey, savLoads, loading, error, detail, loadedSessionId, chantierMeta,
                   chantierPhotoIdMap, includeMap, draftSaves, noteText, notePhotos, nowMs,
                   notesSaves>>
    /\ UNCHANGED <<globalSavNote, chantier, publishing, publishCalls>>
    /\ UNCHANGED <<aggVars, visVars, genVars, pageVars>>

RECURSIVE NotesWithout(_, _)
\* prev.filter((n) => n.id !== id)
NotesWithout(noteList, id) ==
    IF noteList = <<>> THEN <<>>
    ELSE (IF Head(noteList).id = id THEN <<>> ELSE <<Head(noteList)>>)
         \o NotesWithout(Tail(noteList), id)

\* "Supprimer", shown when the active note is in the list: deleteNote of the
\* active note, which then calls startNewNote; the autosave timer is armed.
deleteNote ==
    /\ SavRendered
    /\ activeNoteId # NoNote /\ activeNoteId \in NoteIds(notes)
    /\ notes' = NotesWithout(notes, activeNoteId)
    /\ activeNoteId' = StartNewNote(includedPhotoIds).activeNoteId
    /\ noteText' = StartNewNote(includedPhotoIds).noteText
    /\ notePhotos' = StartNewNote(includedPhotoIds).notePhotos
    /\ toast' = Toast("success", NoteDeletedMessage)
    /\ notesSaveTimer' = useDebouncedCallback(notesSaveTimer)
    /\ UNCHANGED <<savKey, savLoads, loading, error, detail, loadedSessionId, chantierMeta,
                   chantierPhotoIdMap, includeMap, draftSaves, nowMs, notesSaves>>
    /\ UNCHANGED <<globalSavNote, chantier, publishing, publishCalls>>
    /\ UNCHANGED <<aggVars, visVars, genVars, pageVars>>

\* Time passes.
Tick ==
    /\ nowMs + 1 \in ClockValues
    /\ nowMs' = nowMs + 1
    /\ UNCHANGED <<savKey, savLoads, loading, error, detail, loadedSessionId, chantierMeta,
                   chantierPhotoIdMap, includeMap, draftSaves, notes, activeNoteId,
                   noteText, notePhotos, toast, notesSaveTimer, notesSaves>>
    /\ UNCHANGED <<globalSavNote, chantier, publishing, publishCalls>>
    /\ UNCHANGED <<aggVars, visVars, genVars, pageVars>>

\* The 3 s timer of the toast fires.
ToastExpires ==
    /\ toast.present
    /\ toast' = NoToast
    /\ UNCHANGED <<savKey, savLoads, loading, error, detail, loadedSessionId, chantierMeta,
                   chantierPhotoIdMap, includeMap, draftSaves, notes, activeNoteId,
                   noteText, notePhotos, nowMs, notesSaveTimer, notesSaves>>
    /\ UNCHANGED <<globalSavNote, chantier, publishing, publishCalls>>
    /\ UNCHANGED <<aggVars, visVars, genVars, pageVars>>

\* saveNotesToBackend: the PATCH it sends through patchChantier (chantier
\* mode, outputs.notes_sav and outputs.note_sav_generale.text) or through
\* patchSession (notes_sav, the JSON text of {notes, global, v: 1}).
saveNotesToBackend ==
    [chantier |-> isChantierMode,
     target |-> IF isChantierMode THEN chantierMeta.chantier_id ELSE effectiveSessionId,
     patch |-> NotesPayload(notes, globalSavNote)]

\* The 700 ms timer of the notes autosave fires: latest.current, the
\* saveNotesToBackend of the last render, issues the PATCH.
NotesSaveFires ==
    /\ notesSaveTimer > 0
    /\ Len(notesSaves) < MaxNotesSaves
    /\ notesSaveTimer' = notesSaveTimer - 1
    /\ notesSaves' = Append(notesSaves, saveNotesToBackend)
    /\ UNCHANGED <<savKey, savLoads, loading, error, detail, loadedSessionId, chantierMeta,
                   chantierPhotoIdMap, includeMap, draftSaves, notes, activeNoteId,
                   noteText, notePhotos, toast, nowMs>>
    /\ UNCHANGED <<globalSavNote, chantier, publishing, publishCalls>>
    /\ UNCHANGED <<aggVars, visVars, genVars, pageVars>>

\* How a PATCH can end: a 2xx response, a non-2xx response with its status
\* and body text, or a rejected fetch with the message of its error.
PatchOutcomes ==
    {[kind |-> "ok", status |-> 200, text |-> ""],
     [kind |-> "status", status |-> 500, text |-> ""],
     [kind |-> "status", status |-> 404, text |-> "gone"],
     [kind |-> "throw", status |-> 0, text |-> "Failed to fetch"],
     [kind |-> "throw", status |-> 0, text |-> ""]}

PatchSessionDefaultMessage == "Erreur lors de la sauvegarde des informations chantier."
PatchChantierDefaultMessage == "Erreur lors de la sauvegarde du chantier."

\* The message of the error toast of patchSession ("session") or
\* patchChantier ("chantier"): the Error thrown for a non-2xx response, the
\* message of the rejected fetch, or the default text when it has none.
PatchErrorText(what, outcome) ==
    IF outcome.kind = "status"
    THEN "PATCH " \o what \o " (" \o ToString(outcome.status) \o ") : "
         \o (IF outcome.text = "" THEN "Erreur" ELSE outcome.text)
    ELSE IF outcome.text # "" THEN outcome.text
    ELSE IF what = "session" THEN PatchSessionDefaultMessage
    ELSE PatchChantierDefaultMessage

\* A plausible slip: the patch merged before the response is known.
patchSessionOptimistic(prev, patch, outcome) ==
    IF prev.present THEN [prev EXCEPT !.notes_sav = patch] ELSE prev

\* patchSession, as the value it gives detail: deepMerge(prev, {notes_sav})
\* after a 2xx response when there is a detail, prev otherwise.
patchSession(prev, patch, outcome) ==
    IF outcome.kind = "ok" /\ prev.present THEN [prev EXCEPT !.notes_sav = patch] ELSE prev

\* patchChantier, as the value it gives chantier: deepMerge(prev, {outputs})
\* after a 2xx response when there is a chantier, prev otherwise.
patchChantier(prev, patch, outcome) ==
    IF outcome.kind = "ok" /\ prev.present THEN [prev EXCEPT !.outputs = patch] ELSE prev

\* patchSession / patchChantier after the await: a failure shows an error
\* toast; a PATCH that succeeds merges the patch into detail or chantier, and
\* a new detail runs the effect on [detail].
NotesSaveResponse ==
    /\ \E i \in 1..Len(notesSaves), outcome \in PatchOutcomes :
         LET save == notesSaves[i]
             newDetail == IF save.chantier THEN detail
                          ELSE patchSession(detail, save.patch, outcome)
             editor == IF outcome.kind = "ok" /\ ~save.chantier /\ detail.present
                       THEN DetailEffect(newDetail, notes, includedPhotoIds,
                                         activeNoteId, noteText, notePhotos)
                       ELSE [activeNoteId |-> activeNoteId, noteText |-> noteText,
                             notePhotos |-> notePhotos]
         IN /\ notesSaves' = RemoveAt(notesSaves, i)
            /\ detail' = newDetail
            /\ chantier' = IF save.chantier THEN patchChantier(chantier, save.patch, outcome)
                           ELSE chantier
            /\ toast' = IF outcome.kind = "ok" THEN toast
                        ELSE Toast("error",
                                   PatchErrorText(IF save.chantier THEN "chantier"
                                                  ELSE "session", outcome))
            /\ activeNoteId' = editor.activeNoteId
            /\ noteText' = editor.noteText
            /\ notePhotos' = editor.notePhotos
    /\ UNCHANGED <<savKey, savLoads, loading, error, loadedSessionId, chantierMeta,
                   chantierPhotoIdMap, includeMap, draftSaves, notes, nowMs, notesSaveTimer>>
    /\ UNCHANGED <<globalSavNote, publishing, publishCalls>>
    /\ UNCHANGED <<aggVars, visVars, genVars, pageVars>>

\* ---- publish

\* How the webhook call can end: a 2xx response, a non-2xx response, or a
\* rejected fetch.
NotifyOutcomes == {"ok", "status", "throw"}

MultiSessionMessage == "Chantier multi-sessions : publication non supportee pour l'instant."
NoPhotoSelectedMessage == "Aucune photo selectionnee pour le rapport."
ChantierPublishedMessage == "Rapport chantier publie."
SessionPublishedMessage == "Rapport publie."
DiagnosticPublishedMessage == "Diagnostic publie et envoye a l'installateur."
NoPhotoToPublishMessage == "Aucune photo a publier pour cette session."

\* The message of the error toast of handlePublish when the publish POST
\* fails, on the chantier path, the session path and the diagnostic page.
PublishErrorText(path, outcome) ==
    IF outcome.kind = "status"
    THEN (IF path = "chantier" THEN "Erreur publication chantier (" ELSE "Erreur publication (")
         \o ToString(outcome.status) \o ") : "
         \o (IF outcome.text = "" THEN "Impossible de publier" ELSE outcome.text)
    ELSE IF outcome.text # "" THEN outcome.text
    ELSE IF path = "chantier" THEN "Erreur lors de la publication chantier."
    ELSE IF path = "session" THEN "Erreur lors de la publication."
    ELSE "Erreur lors de la publication du diagnostic."

\* A plausible slip: the webhook failure reported as a failure of the publish.
PublishFeedbackStrict(path, outcome) ==
    IF outcome = "ok"
    THEN Toast("success", IF path = "chantier" THEN ChantierPublishedMessage
                          ELSE IF path = "session" THEN SessionPublishedMessage
                          ELSE DiagnosticPublishedMessage)
    ELSE Toast("error", PublishErrorText(path, [kind |-> "throw", status |-> 0, text |-> ""]))

\* The toast handlePublish shows once the webhook call has ended in `outcome`:
\* a non-2xx status is at most logged and a rejected fetch is caught and
\* logged, so the success toast follows in every case.
PublishFeedback(path, outcome) ==
    Toast("success", IF path = "chantier" THEN ChantierPublishedMessage
                     ELSE IF path = "session" THEN SessionPublishedMessage
                     ELSE DiagnosticPublishedMessage)

\* p.__photo_id || p.id of the photo shown under ui id `id`
OriginPhotoId(id) ==
    IF id \in DOMAIN chantierPhotoIdMap THEN chantierPhotoIdMap[id].photo_id ELSE id

\* The publish request handlePublish builds: on the chantier path the body
\* holds the author only; on the session path it holds one item per photo
\* whose include flag is not false, named by its origin photo id.
PublishRequest ==
    IF isChantierMode
    THEN [path |-> "chantier", stage |-> "publish", target |-> chantierMeta.chantier_id,
          hasItems |-> FALSE, items |-> <<>>, base |-> detail]
    ELSE [path |-> "session", stage |-> "publish", target |-> effectiveSessionId,
          hasItems |-> TRUE,
          items |-> [i \in 1..Len(includedPhotoIds) |-> OriginPhotoId(includedPhotoIds[i])],
          base |-> detail]

\* Click on "Publier" (enabled when !publishing && detail && photos.length):
\* handlePublish up to its first await.
handlePublish ==
    /\ SavRendered /\ ~publishing /\ SavPhotoIds # <<>>
    /\ IF isChantierMode
       THEN /\ publishing' = TRUE
            /\ publishCalls' = Append(publishCalls, PublishRequest)
            /\ UNCHANGED toast
       ELSE IF isMultiSessionChantier
       THEN /\ toast' = Toast("error", MultiSessionMessage)
            /\ UNCHANGED <<publishing, publishCalls>>
       ELSE IF effectiveSessionId = <<>>
       THEN UNCHANGED <<toast, publishing, publishCalls>>
       ELSE IF includedPhotoIds = <<>>
       THEN /\ toast' = Toast("error", NoPhotoSelectedMessage)
            /\ UNCHANGED <<publishing, publishCalls>>
       ELSE /\ publishing' = TRUE
            /\ publishCalls' = Append(publishCalls, PublishRequest)
            /\ UNCHANGED toast
    /\ UNCHANGED <<savKey, savLoads, loading, error, detail, loadedSessionId, chantierMeta,
                   chantierPhotoIdMap, includeMap, draftSaves, notes, activeNoteId,
                   noteText, notePhotos, nowMs, notesSaveTimer, notesSaves>>
    /\ UNCHANGED <<globalSavNote, chantier>>
    /\ UNCHANGED <<aggVars, visVars, genVars, pageVars>>

\* The publish POST ends.  A failure shows the error toast and ends the call.
\* A success applies the result: on the chantier path the publication data
\* are merged into chantier (or become the chantier when there is none) and
\* detail gets the status "PUBLIE"; on the session path detail is replaced by
\* the session the backend returns, taken to be the session as the page held
\* it at the click, published.  A new detail runs the effect on [detail].
\* The call then awaits the webhook.
PublishResponse ==
    /\ \E i \in 1..Len(publishCalls), outcome \in PatchOutcomes :
         LET call == publishCalls[i]
             ok == outcome.kind = "ok"
             newDetail ==
                 IF ~ok THEN detail
                 ELSE IF call.path = "chantier"
                 THEN (IF detail.present THEN [detail EXCEPT !.published = TRUE] ELSE detail)
                 ELSE [call.base EXCEPT !.published = TRUE]
             editor == IF ok /\ newDetail.present
                       THEN DetailEffect(newDetail, notes,
                                         FilterIncluded(newDetail.photos, includeMap),
                                         activeNoteId, noteText, notePhotos)
                       ELSE [activeNoteId |-> activeNoteId, noteText |-> noteText,
                             notePhotos |-> notePhotos]
         IN /\ call.stage = "publish"
            /\ publishCalls' = IF ok THEN [publishCalls EXCEPT ![i].stage = "notify"]
                               ELSE RemoveAt(publishCalls, i)
            /\ publishing' = IF ok THEN publishing ELSE FALSE
            /\ toast' = IF ok THEN toast
                        ELSE Toast("error", PublishErrorText(call.path, outcome))
            /\ detail' = newDetail
            /\ chantier' = IF ok /\ call.path = "chantier"
                           THEN (IF chantier.present THEN [chantier EXCEPT !.published = TRUE]
                                 ELSE [present |-> TRUE, outputs |-> NotesPayload(<<>>, <<>>),
                                       published |-> TRUE])
                           ELSE chantier
            /\ activeNoteId' = editor.activeNoteId
            /\ noteText' = editor.noteText
            /\ notePhotos' = editor.notePhotos
    /\ UNCHANGED <<savKey, savLoads, loading, error, loadedSessionId, chantierMeta,
                   chantierPhotoIdMap, includeMap, draftSaves, notes, nowMs,
                   notesSaveTimer, notesSaves>>
    /\ UNCHANGED globalSavNote
    /\ UNCHANGED <<aggVars, visVars, genVars, pageVars>>

\* The webhook call ends: the toast of the publish, then finally
\* setPublishing(false).
NotifyResponse ==
    /\ \E i \in 1..Len(publishCalls), outcome \in NotifyOutcomes :
         /\ publishCalls[i].stage = "notify"
         /\ publishCalls' = RemoveAt(publishCalls, i)
         /\ toast' = PublishFeedback(publishCalls[i].path, outcome)
         /\ publishing' = FALSE
    /\ UNCHANGED <<savKey, savLoads, loading, error, detail, loadedSessionId, chantierMeta,
                   chantierPhotoIdMap, includeMap, draftSaves, notes, activeNoteId,
                   noteText, notePhotos, nowMs, notesSaveTimer, notesSaves>>
    /\ UNCHANGED <<globalSavNote, chantier>>
    /\ UNCHANGED <<aggVars, visVars, genVars, pageVars>>

\* ---- upsertNote and the include flags

\* C7 as stated: with a blank text upsertNote leaves the notes as they are and
\* shows an error toast; with a non-blank text and no active note it adds one
\* note whose id is not in the list, whose text is the entered text and whose
\* photo_ids are the linked photo ids, each once.
C7_AsClaimed ==
    SavRendered =>
      \A rnd \in RandomPool :
        LET out == UpsertNote(rnd)
        IN /\ Trim(noteText) = <<>> =>
                out.notes = notes /\ out.toast.present /\ out.toast.type = "error"
           /\ (Trim(noteText) # <<>> /\ activeNoteId = NoNote) =>
                /\ Len(out.notes) = Len(notes) + 1
                /\ Head(out.notes).id \notin NoteIds(notes)
                /\ Head(out.notes).text = noteText
                /\ Range(Head(out.notes).photo_ids) = Range(notePhotos)
                /\ Cardinality(Range(Head(out.notes).photo_ids)) = Len(Head(out.notes).photo_ids)

\* C7, amended: with a blank text upsertNote leaves the notes and the active
\* note as they are and shows the error toast; with a non-blank text and no
\* active note it puts one note in front of the unchanged list, whose text is
\* the entered text trimmed, whose photo_ids are the non-empty linked ids, each
\* once, whose id is note_<random>_<timestamp> as uid draws it (not compared
\* with the ids in the list), and which becomes the active note.
C7_Upsert ==
    SavRendered =>
      \A rnd \in RandomPool :
        LET out == UpsertNote(rnd)
        IN /\ Trim(noteText) = <<>> =>
                /\ out.notes = notes /\ out.activeNoteId = activeNoteId
                /\ out.toast = Toast("error", BlankNoteMessage)
           /\ (Trim(noteText) # <<>> /\ activeNoteId = NoNote) =>
                /\ Len(out.notes) = Len(notes) + 1
                /\ Tail(out.notes) = notes
                /\ Head(out.notes).id = <<"note", rnd, nowMs>>
                /\ out.activeNoteId = Head(out.notes).id
                /\ Head(out.notes).text = Trim(noteText)
                /\ Range(Head(out.notes).photo_ids) = Range(notePhotos) \ {<<>>}
                /\ Cardinality(Range(Head(out.notes).photo_ids)) = Len(Head(out.notes).photo_ids)
                /\ out.toast = Toast("success", NoteCreatedMessage)

\* upsertNote has created a note from a padded text and a repeated photo id,
\* in front of a note already in the list.
C7_Witness ==
    /\ SavRendered
    /\ Len(notes) = 2
    /\ activeNoteId = notes[1].id /\ notes[1].id[1] = "note" /\ notes[1].id[3] = nowMs
    /\ toast = Toast("success", NoteCreatedMessage)
    /\ noteText # Trim(noteText) /\ notes[1].text = Trim(noteText)
    /\ Len(notePhotos) > Len(notes[1].photo_ids) /\ notes[1].photo_ids # <<>>

\* The ui ids of the photos of the items of the backend.
SavAllPhotoIds ==
    UNION {Range(SavLoaded(SavBackend(itemKey)).detail.photos) : itemKey \in {KeyS, KeyC}}

\* The step is toggleInclude(x): the draft POST of x has been issued.
ToggledStep(x) ==
    /\ Len(draftSaves') = Len(draftSaves) + 1
    /\ draftSaves'[Len(draftSaves')].ui_id = x

\* C8: toggleInclude(X) negates the include flag of X and leaves the flags of
\* the other photos; the flag of a photo changes only when that photo is
\* toggled or when a load starts or completes; the completion of a draft
\* save, successful or failed, changes no flag.
C8_TogglePersists ==
    [][/\ \A x \in SavAllPhotoIds :
            /\ ToggledStep(x) =>
                 /\ IncludeFlag(includeMap', x) = ~IncludeFlag(includeMap, x)
                 /\ draftSaves'[Len(draftSaves')].include = IncludeFlag(includeMap', x)
                 /\ \A y \in SavAllPhotoIds \ {x} :
                        IncludeFlag(includeMap', y) = IncludeFlag(includeMap, y)
            /\ IncludeFlag(includeMap', x) # IncludeFlag(includeMap, x) =>
                 ToggledStep(x) \/ savLoads' # savLoads
       /\ Len(draftSaves') < Len(draftSaves) => includeMap' = includeMap]_vars

\* A photo's flag differs from the loaded one once every save has completed.
C8_Witness ==
    /\ SavRendered
    /\ draftSaves = <<>> /\ savLoads = <<>>
    /\ \E x \in Range(SavPhotoIds) :
         IncludeFlag(includeMap, x) # IncludeFlag(SavLoaded(SavBackend(savKey)).includeMap, x)

\* The step takes the note `id` out of the list through the page's own
\* deletion (a load replacing the whole list is not a deletion).
NoteRemovedStep(id) ==
    /\ id \in NoteIds(notes)
    /\ notes' = NotesWithout(notes, id)
    /\ savLoads' = savLoads

C18_DebouncedIncludeSave ==
    [][\A x \in SavAllPhotoIds :
          (IncludeFlag(includeMap', x) # IncludeFlag(includeMap, x) /\ savLoads' = savLoads)
             => draftSaves' = draftSaves]_vars

\* C19: a publish request names the curated selection.  Each request issued
\* carries an item list, which holds the origin photo ids of exactly the
\* photos whose include flag is not false when it is issued, and no request
\* is issued while no photo is included.
C19_PublishCuratedSelection ==
    [][Len(publishCalls') > Len(publishCalls) =>
          LET call == publishCalls'[Len(publishCalls')]
          IN /\ includedPhotoIds # <<>>
             /\ call.hasItems
             /\ call.items = [i \in 1..Len(includedPhotoIds) |->
                                 OriginPhotoId(includedPhotoIds[i])]]_vars

\* ---- the notes autosave

\* C11: the notes autosave coalesces a burst of edits.  An edit of the notes
\* list or of the general note sends nothing and leaves exactly one timeout
\* outstanding; a save is sent only when that timeout fires, one save per
\* firing, after which no timeout is outstanding (a further save needs a
\* further edit); the save carries the notes list and the general note as
\* they are when it is sent, that is after the last edit.
C11_CoalescedSave ==
    [][/\ Len(notesSaves') > Len(notesSaves) =>
            /\ notesSaveTimer > 0 /\ notesSaveTimer' = 0
            /\ Len(notesSaves') = Len(notesSaves) + 1
            /\ notesSaves'[Len(notesSaves')].patch.notes = notes
            /\ notesSaves'[Len(notesSaves')].patch.global = globalSavNote
            /\ notes' = notes /\ globalSavNote' = globalSavNote
       /\ ((notes' # notes \/ globalSavNote' # globalSavNote) /\ detail'.present) =>
            /\ notesSaves' = notesSaves
            /\ notesSaveTimer' = 1]_vars

\* The one save in flight of the session item carries the notes list after a
\* deletion and the general note after an edit, both made since the load, and
\* no save has been merged before it: both edits went out in this one request.
C11_Witness ==
    /\ SavRendered /\ ~isChantierMode
    /\ notesSaveTimer = 0
    /\ Len(notesSaves) = 1
    /\ notesSaves[1].patch = NotesPayload(<<>>, <<" ", "x">>)
    /\ notes = <<>> /\ globalSavNote = <<" ", "x">>
    /\ detail.notes_sav = NotesPayload(<<NoteOld>>, <<"g">>)

\* include_in_report of the draft the backend holds for a photo of a session
\* of the item, FALSE having been saved by an earlier toggle; TRUE without a
\* draft.
StoredInclude(itemKey, sid, pid) ==
    LET sessions == SavBackend(itemKey).sessions
    IN \A i \in 1..Len(sessions) :
          (sessions[i].session_id = sid /\ pid \in DOMAIN sessions[i].photo_drafts)
             => sessions[i].photo_drafts[pid]

\* C25: when a load completes, a photo whose draft in its origin session
\* holds include_in_report = false is shown as excluded, whichever session
\* of the chantier it comes from.
C25_SavedExclusionShown ==
    [][(loading /\ ~loading' /\ detail'.present) =>
          \A i \in 1..Len(detail'.photos) :
             LET x == detail'.photos[i]
                 sid == IF x \in DOMAIN chantierPhotoIdMap'
                        THEN chantierPhotoIdMap'[x].session_id ELSE loadedSessionId'
                 pid == IF x \in DOMAIN chantierPhotoIdMap'
                        THEN chantierPhotoIdMap'[x].photo_id ELSE x
             IN ~StoredInclude(savKey, sid, pid) => ~IncludeFlag(includeMap', x)]_vars

\* C24: the notes autosave is armed by an edit only.  A step that answers
\* a load, and so fills the notes and the general note from the backend,
\* arms no timer, hence sends no PATCH later.
C24_LoadArmsNoSave ==
    [][savLoads' # savLoads => notesSaveTimer' <= notesSaveTimer]_vars

\* The step ends the i-th PATCH in flight.
PatchEnds(i) ==
    /\ i \in 1..Len(notesSaves)
    /\ notesSaves' = RemoveAt(notesSaves, i)

\* The step leaves the local copies as they were, shows the error toast with
\* the given message, and neither sends nor schedules anything.
PatchFailedWith(message) ==
    /\ detail' = detail /\ chantier' = chantier
    /\ toast' = Toast("error", message)
    /\ notesSaveTimer' = notesSaveTimer
    /\ notes' = notes /\ globalSavNote' = globalSavNote

\* The step merges the patch of `save` into the copy it is for, shows no toast.
PatchMerged(save) ==
    /\ toast' = toast
    /\ detail' = IF ~save.chantier /\ detail.present
                 THEN [detail EXCEPT !.notes_sav = save.patch] ELSE detail
    /\ chantier' = IF save.chantier /\ chantier.present
                   THEN [chantier EXCEPT !.outputs = save.patch] ELSE chantier

PatchWhat(save) == IF save.chantier THEN "chantier" ELSE "session"

\* C20 as stated: the toast of a failed PATCH holds the status and the
\* response text, or is the default message.
C20_AsClaimed ==
    [][\A i \in 1..Len(notesSaves) : PatchEnds(i) =>
          LET save == notesSaves[i]
          IN \/ PatchMerged(save)
             \/ \E outcome \in {o \in PatchOutcomes : o.kind = "status"} :
                   PatchFailedWith(PatchErrorText(PatchWhat(save), outcome))
             \/ PatchFailedWith(IF save.chantier THEN PatchChantierDefaultMessage
                                ELSE PatchSessionDefaultMessage)]_vars

\* C20: a PATCH that ends either was answered 2xx and is merged, or failed:
\* then detail and chantier are as before the call, the error toast is
\* shown, and nothing is sent again or scheduled.  The toast of a non-2xx
\* response holds the status and the response text ("Erreur" when the body
\* is empty); the toast of a rejected fetch holds the message of its error,
\* and the default message only when the error has none.
C20_FailedPatch ==
    [][\A i \in 1..Len(notesSaves) : PatchEnds(i) =>
          LET save == notesSaves[i]
          IN \/ PatchMerged(save)
             \/ \E outcome \in {o \in PatchOutcomes : o.kind # "ok"} :
                   PatchFailedWith(PatchErrorText(PatchWhat(save), outcome))]_vars

\* A PATCH of the session item was refused with 404 "gone": the toast says
\* so, the edit is still only local, nothing is in flight or scheduled.
C20_Witness ==
    /\ SavRendered /\ ~isChantierMode
    /\ notesSaves = <<>> /\ notesSaveTimer = 0
    /\ toast = Toast("error", "PATCH session (404) : gone")
    /\ notes = <<>> /\ detail.notes_sav = NotesPayload(<<NoteOld>>, <<"g">>)

(***************************************************************************)
(* SAV diagnostic page (the SavSessionDetailPage of the annotation         *)
(* editor): load, publish, and the drafts of the photos with their saves.    *)
(***************************************************************************)

SessRouteId == <<"d">>

\* The body of GET /sessions/{sessionId}.
SessPid2 == <<"2">>
SessBackendDetail ==
    [present |-> TRUE, session_id |-> SessRouteId, photos |-> <<Pid1, SessPid2>>,
     published |-> FALSE]

\* photo_drafts of that body: the first photo has a draft, the second none.
SessBackendDrafts ==
    (Pid1 :> [status |-> "ok", commentaire |-> <<"c">>, annotated_path |-> <<"p">>])

\* nextDrafts of the load effect: for each photo the draft of the backend, else
\* "a_revoir", "" and null (the session has no published item).
SessLoadedDrafts ==
    [pid \in Range(SessBackendDetail.photos) |->
        IF pid \in DOMAIN SessBackendDrafts
        THEN [status |-> SessBackendDrafts[pid].status,
              commentaire |-> SessBackendDrafts[pid].commentaire,
              annotatedPath |-> SessBackendDrafts[pid].annotated_path]
        ELSE [status |-> "a_revoir", commentaire |-> <<>>, annotatedPath |-> <<>>]]

\* `${sessionId}::${photoId}`
DraftKey(sessionId, photoId) == <<sessionId, "::", photoId>>
DraftKeys == {DraftKey(SessRouteId, pid) : pid \in Range(SessBackendDetail.photos)}

\* The drafts of the page and the timers of the module before the load.
DraftsIdle ==
    /\ sessSelectedPhotoId = <<>>
    /\ sessDrafts = EmptyMap
    /\ draftSaveTimers = [k \in DraftKeys |-> <<>>]
    /\ draftPosts = <<>>

\* The page mounted: the useState initial values, then the load effect up to
\* its await.
SessIdle ==
    /\ sessLoading = TRUE
    /\ sessDetail = NoDetail
    /\ sessPublishing = FALSE
    /\ sessToast = NoToast
    /\ sessPublishCalls = <<>>

\* The load effect after its await: the detail and the drafts of the backend.
\* The first load selects the first photo, and the effect, on [sessionId,
\* selectedPhotoId], then runs again up to its await.
SessLoadResponse ==
    /\ sessLoading
    /\ \E ok \in BOOLEAN :
         LET first == ok /\ sessSelectedPhotoId = <<>> /\ SessBackendDetail.photos # <<>>
         IN /\ sessDetail' = IF ok THEN SessBackendDetail ELSE sessDetail
            /\ sessDrafts' = IF ok THEN SessLoadedDrafts ELSE sessDrafts
            /\ sessSelectedPhotoId' = IF first THEN SessBackendDetail.photos[1]
                                      ELSE sessSelectedPhotoId
            /\ sessLoading' = first
    /\ UNCHANGED <<sessPublishing, sessToast, sessPublishCalls>>
    /\ UNCHANGED <<draftSaveTimers, draftPosts>>
    /\ UNCHANGED <<aggVars, visVars, genVars, savVars, pubVars, inboxVars, noteStoreVars,
                   assetVars, ctxVars>>

\* Click on "Publier" (enabled when !publishing && detail && photos.length):
\* handlePublish up to its await; the request holds one item per photo.
SessHandlePublish ==
    /\ ~sessLoading /\ sessDetail.present /\ ~sessPublishing /\ sessDetail.photos # <<>>
    /\ IF sessDetail.photos = <<>>
       THEN /\ sessToast' = Toast("error", NoPhotoToPublishMessage)
            /\ UNCHANGED <<sessPublishing, sessPublishCalls>>
       ELSE /\ sessPublishing' = TRUE
            /\ sessPublishCalls' =
                 Append(sessPublishCalls,
                        [path |-> "diagnostic", stage |-> "publish", target |-> SessRouteId,
                         hasItems |-> TRUE, items |-> sessDetail.photos,
                         base |-> sessDetail])
            /\ UNCHANGED sessToast
    /\ UNCHANGED <<sessLoading, sessDetail>>
    /\ UNCHANGED <<aggVars, visVars, genVars, savVars, pubVars, inboxVars, extVars>>

\* The publish POST ends: an error toast, or detail replaced by the session
\* the backend returns, after which the call awaits the webhook.
SessPublishResponse ==
    /\ \E i \in 1..Len(sessPublishCalls), outcome \in PatchOutcomes :
         LET call == sessPublishCalls[i]
             ok == outcome.kind = "ok"
         IN /\ call.stage = "publish"
            /\ sessPublishCalls' = IF ok THEN [sessPublishCalls EXCEPT ![i].stage = "notify"]
                                   ELSE RemoveAt(sessPublishCalls, i)
            /\ sessPublishing' = IF ok THEN sessPublishing ELSE FALSE
            /\ sessToast' = IF ok THEN sessToast
                            ELSE Toast("error", PublishErrorText(call.path, outcome))
            /\ sessDetail' = IF ok THEN [call.base EXCEPT !.published = TRUE] ELSE sessDetail
    /\ UNCHANGED sessLoading
    /\ UNCHANGED <<aggVars, visVars, genVars, savVars, pubVars, inboxVars, extVars>>

\* The webhook call ends: the toast of the publish, then finally
\* setPublishing(false).
SessNotifyResponse ==
    /\ \E i \in 1..Len(sessPublishCalls), outcome \in NotifyOutcomes :
         /\ sessPublishCalls[i].stage = "notify"
         /\ sessPublishCalls' = RemoveAt(sessPublishCalls, i)
         /\ sessToast' = PublishFeedback(sessPublishCalls[i].path, outcome)
         /\ sessPublishing' = FALSE
    /\ UNCHANGED <<sessLoading, sessDetail>>
    /\ UNCHANGED <<aggVars, visVars, genVars, savVars, pubVars, inboxVars, extVars>>

\* The 3 s timer of the toast of the diagnostic page fires.
SessToastExpires ==
    /\ sessToast.present
    /\ sessToast' = NoToast
    /\ UNCHANGED <<sessLoading, sessDetail, sessPublishing, sessPublishCalls>>
    /\ UNCHANGED <<aggVars, visVars, genVars, savVars, pubVars, inboxVars, extVars>>

\* ---- the drafts of the photos and their debounced saves

MaxDraftPosts == 1

DraftStatuses == {"ok", "a_revoir"}
DraftCommentPool == {<<>>, <<"x">>}

\* The editor of the selected photo is shown.
SessRendered == ~sessLoading /\ sessDetail.present

\* selectedPhoto: the photo of the selected id, else the first one
selectedPhoto ==
    IF sessSelectedPhotoId \in Range(sessDetail.photos) THEN sessSelectedPhotoId
    ELSE sessDetail.photos[1]

\* A plausible slip: the timeout outstanding for the key is not cleared.
scheduleDraftSaveWithoutClear(timers, sessionId, photoId, draft) ==
    [timers EXCEPT ![DraftKey(sessionId, photoId)] =
        Append(@, [sessionId |-> sessionId, photoId |-> photoId, draft |-> draft])]

\* scheduleDraftSave: the timeout outstanding for the key, if any, is
\* cleared, and a new one is set that holds the draft.
scheduleDraftSave(timers, sessionId, photoId, draft) ==
    [timers EXCEPT ![DraftKey(sessionId, photoId)] =
        <<[sessionId |-> sessionId, photoId |-> photoId, draft |-> draft]>>]

\* The body savePhotoDraftToServer posts: status when it is set, commentaire,
\* annotated_path when there is one (annotated_url goes its way).
DraftBody(draft) ==
    [status |-> draft.status, commentaire |-> draft.commentaire,
     annotated_path |-> draft.annotatedPath]

\* prev[photoId] of an updater of setDrafts, with the defaults the handlers
\* give an absent draft.
PrevDraft(photoId) ==
    IF photoId \in DOMAIN sessDrafts THEN sessDrafts[photoId]
    ELSE [status |-> "a_revoir", commentaire |-> <<>>, annotatedPath |-> <<>>]

\* Click on a thumbnail: setSelectedPhotoId, and the load effect runs again
\* up to its await.
SessSelectPhoto ==
    /\ SessRendered
    /\ \E pid \in Range(sessDetail.photos) :
         /\ pid # sessSelectedPhotoId
         /\ sessSelectedPhotoId' = pid
    /\ sessLoading' = TRUE
    /\ UNCHANGED <<sessDetail, sessPublishing, sessToast, sessPublishCalls>>
    /\ UNCHANGED <<sessDrafts, draftSaveTimers, draftPosts>>
    /\ UNCHANGED <<aggVars, visVars, genVars, savVars, pubVars, inboxVars, noteStoreVars,
                   assetVars, ctxVars>>

\* "OK" / "A revoir" of the selected photo: the draft takes the status and
\* its save is scheduled.
handleStatusChange ==
    /\ SessRendered /\ sessDetail.photos # <<>>
    /\ \E status \in DraftStatuses :
         LET photoId == selectedPhoto
             draft == [status |-> status, commentaire |-> PrevDraft(photoId).commentaire,
                       annotatedPath |-> PrevDraft(photoId).annotatedPath]
         IN /\ sessDrafts' = (photoId :> draft) @@ sessDrafts
            /\ draftSaveTimers' = scheduleDraftSave(draftSaveTimers, SessRouteId,
                                                    photoId, draft)
    /\ UNCHANGED <<sessSelectedPhotoId, draftPosts>>
    /\ UNCHANGED <<sessVars, aggVars, visVars, genVars, savVars, pubVars, inboxVars,
                   noteStoreVars, assetVars, ctxVars>>

\* onChange of the comment of the selected photo: the draft takes the text
\* and its save is scheduled.
handleCommentChange ==
    /\ SessRendered /\ sessDetail.photos # <<>>
    /\ \E value \in DraftCommentPool :
         LET photoId == selectedPhoto
             draft == [status |-> PrevDraft(photoId).status, commentaire |-> value,
                       annotatedPath |-> PrevDraft(photoId).annotatedPath]
         IN /\ value # PrevDraft(photoId).commentaire
            /\ sessDrafts' = (photoId :> draft) @@ sessDrafts
            /\ draftSaveTimers' = scheduleDraftSave(draftSaveTimers, SessRouteId,
                                                    photoId, draft)
    /\ UNCHANGED <<sessSelectedPhotoId, draftPosts>>
    /\ UNCHANGED <<sessVars, aggVars, visVars, genVars, savVars, pubVars, inboxVars,
                   noteStoreVars, assetVars, ctxVars>>

\* The 500 ms timeout of a key fires (the oldest one outstanding):
\* savePhotoDraftToServer posts the draft the timeout holds.
DraftTimerFires ==
    /\ Len(draftPosts) < MaxDraftPosts
    /\ \E key \in DraftKeys :
         /\ draftSaveTimers[key] # <<>>
         /\ draftPosts' = Append(draftPosts,
                                 [sessionId |-> Head(draftSaveTimers[key]).sessionId,
                                  photoId |-> Head(draftSaveTimers[key]).photoId,
                                  body |-> DraftBody(Head(draftSaveTimers[key]).draft)])
         /\ draftSaveTimers' = [draftSaveTimers EXCEPT ![key] = Tail(@)]
    /\ UNCHANGED <<sessSelectedPhotoId, sessDrafts>>
    /\ UNCHANGED <<sessVars, aggVars, visVars, genVars, savVars, pubVars, inboxVars,
                   noteStoreVars, assetVars, ctxVars>>

\* The POST of a draft ends; its outcome changes nothing on the page.
DraftPostDone ==
    /\ \E i \in 1..Len(draftPosts) : draftPosts' = RemoveAt(draftPosts, i)
    /\ UNCHANGED <<sessSelectedPhotoId, sessDrafts, draftSaveTimers>>
    /\ UNCHANGED <<sessVars, aggVars, visVars, genVars, savVars, pubVars, inboxVars,
                   noteStoreVars, assetVars, ctxVars>>

\* C21: the debounce of the draft saves is per key sessionId::photoId.  A
\* key has at most one timeout outstanding; a step that edits the draft of a
\* photo leaves the timeout of its key holding the draft the photo now has,
\* and the timeouts of the other keys and the requests as they are; a timeout that
\* fires sends one POST, for its photo, with the draft scheduled last for
\* it, and leaves nothing outstanding for its key.
C21_PerKeyDebounce ==
    /\ [](\A key \in DraftKeys : Len(draftSaveTimers[key]) <= 1)
    /\ [][\A pid \in Range(SessBackendDetail.photos) :
             LET key == DraftKey(SessRouteId, pid)
                 scheduled == draftSaveTimers'[key] # draftSaveTimers[key]
                                 /\ draftSaveTimers'[key] # <<>>
                 fired == Len(draftPosts') > Len(draftPosts)
                             /\ draftPosts'[Len(draftPosts')].photoId = pid
                 edited == ~sessLoading /\ pid \in DOMAIN sessDrafts
                              /\ sessDrafts'[pid] # sessDrafts[pid]
             IN /\ (edited \/ scheduled)
                      => /\ draftSaveTimers'[key] # <<>>
                         /\ draftSaveTimers'[key][Len(draftSaveTimers'[key])].draft
                              = sessDrafts'[pid]
                         /\ \A other \in DraftKeys \ {key} :
                               draftSaveTimers'[other] = draftSaveTimers[other]
                         /\ draftPosts' = draftPosts
                /\ fired
                      => /\ draftSaveTimers[key] # <<>>
                         /\ draftPosts'[Len(draftPosts')]
                              = [sessionId |-> SessRouteId, photoId |-> pid,
                                 body |-> DraftBody(
                                    draftSaveTimers[key][Len(draftSaveTimers[key])].draft)]
                         /\ draftSaveTimers'[key] = <<>>
                         /\ \A other \in DraftKeys \ {key} :
                               draftSaveTimers'[other] = draftSaveTimers[other]]_vars

\* The save of the first photo was sent with its edited draft while the save
\* of the second photo, edited after it, is still waiting.
C21_Witness ==
    /\ Len(draftPosts) = 1
    /\ draftPosts[1].photoId = Pid1
    /\ draftPosts[1].body = [status |-> "a_revoir", commentaire |-> <<"x">>,
                             annotated_path |-> <<"p">>]
    /\ draftSaveTimers[DraftKey(SessRouteId, Pid1)] = <<>>
    /\ draftSaveTimers[DraftKey(SessRouteId, SessPid2)] # <<>>
    /\ draftSaveTimers[DraftKey(SessRouteId, SessPid2)][1].draft.status = "ok"

\* ---- publish and the webhook

\* The step ends the webhook call of a handlePublish of the SAV detail page.
SavNotifyEnds(i) ==
    /\ i \in 1..Len(publishCalls)
    /\ publishCalls[i].stage = "notify"
    /\ publishCalls' = RemoveAt(publishCalls, i)

\* The step ends the webhook call of a handlePublish of the diagnostic page.
SessNotifyEnds(i) ==
    /\ i \in 1..Len(sessPublishCalls)
    /\ sessPublishCalls[i].stage = "notify"
    /\ sessPublishCalls' = RemoveAt(sessPublishCalls, i)

\* C12: once the publish POST has succeeded the call awaits the webhook with
\* the result applied (detail published; on the chantier path the chantier
\* too), and however the webhook call ends the success toast of the path is
\* shown, publishing returns to false and the applied result is left as it
\* is; on the SAV detail page (chantier and session path) and on the
\* diagnostic page.
C12_WebhookIsolated ==
    [][/\ \A i \in 1..Len(publishCalls) :
            /\ (publishCalls[i].stage = "publish" /\ Len(publishCalls') = Len(publishCalls)
                /\ publishCalls'[i].stage = "notify") =>
                 /\ detail'.present => detail'.published
                 /\ publishCalls[i].path = "chantier" => chantier'.published
                 /\ publishing' /\ toast' = toast
            /\ SavNotifyEnds(i) =>
                 /\ toast' = Toast("success",
                                   IF publishCalls[i].path = "chantier"
                                   THEN ChantierPublishedMessage
                                   ELSE SessionPublishedMessage)
                 /\ publishing' = FALSE
                 /\ detail' = detail /\ chantier' = chantier
                 /\ detail.present => detail.published
       /\ \A i \in 1..Len(sessPublishCalls) :
            /\ (sessPublishCalls[i].stage = "publish"
                /\ Len(sessPublishCalls') = Len(sessPublishCalls)
                /\ sessPublishCalls'[i].stage = "notify") =>
                 /\ sessDetail'.published
                 /\ sessPublishing' /\ sessToast' = sessToast
            /\ SessNotifyEnds(i) =>
                 /\ sessToast' = Toast("success", DiagnosticPublishedMessage)
                 /\ sessPublishing' = FALSE
                 /\ sessDetail' = sessDetail /\ sessDetail.published]_vars

\* The chantier has been published and the webhook call has ended (the
\* success toast is up, nothing is in flight), and so has the publish of the
\* diagnostic page.
C12_Witness ==
    /\ isChantierMode /\ chantier.present /\ chantier.published /\ detail.published
    /\ publishCalls = <<>> /\ ~publishing
    /\ toast = Toast("success", ChantierPublishedMessage)
    /\ sessDetail.present /\ sessDetail.published
    /\ sessPublishCalls = <<>> /\ ~sessPublishing
    /\ sessToast = Toast("success", DiagnosticPublishedMessage)

(***************************************************************************)
(* SAV inbox (SavSessionsListPage): rows, deletion, unseen highlight.      *)
(* A row is [group_key, type, chantier_id, session_ids, photo_count,       *)
(* updated_at, created_at, last_activity_at]; a photo_count of -1 stands   *)
(* for one that is not a number, a timestamp of 0 for one that is absent.  *)
(* The filters, the attach dialog, the status and owner menus and the      *)
(* loading and error banners are left out.                                 *)
(***************************************************************************)

MaxActivity == 2
MaxOverviews == 2

NoKey == <<>>
NoDialog == [status |-> "none", key |-> NoKey, isUnattached |-> FALSE]

NoSessionMessage == "Impossible de supprimer: aucune session detectee."
NoChantierIdMessage == "Impossible de supprimer: chantier_id manquant."
DeleteFailedMessage == "Suppression impossible."

\* The groups and the chantier of the backend at the start.
GroupU == [group_key |-> <<"u">>, type |-> "inbox", chantier_id |-> <<>>,
           session_ids |-> <<"s1", "s2">>, photo_count |-> -1,
           updated_at |-> 1, created_at |-> 1, last_activity_at |-> 0]
GroupV == [group_key |-> <<"v">>, type |-> "inbox", chantier_id |-> <<>>,
           session_ids |-> <<>>, photo_count |-> 0,
           updated_at |-> 0, created_at |-> 1, last_activity_at |-> 0]
ChantierW == [group_key |-> <<"w">>, type |-> "chantier", chantier_id |-> <<"w">>,
              session_ids |-> <<"s3">>, photo_count |-> 1,
              updated_at |-> 1, created_at |-> 1, last_activity_at |-> 2]

\* The timestamp a row is sorted and signed by: for a chantier
\* last_activity_at || updated_at || created_at || 0, for a group
\* updated_at || created_at || 0.
RowTs(row) ==
    IF row.type = "chantier" /\ row.last_activity_at # 0 THEN row.last_activity_at
    ELSE IF row.updated_at # 0 THEN row.updated_at
    ELSE row.created_at

\* The count a row is signed by: photo_count when it is a number, else the
\* number of sessions.
RowPc(row) == IF row.photo_count >= 0 THEN row.photo_count ELSE Len(row.session_ids)

\* A plausible slip: the signature made of the timestamp alone.
computeSigTimestampOnly(row) == ToString(RowTs(row))

\* computeSig: `${u}__${pc}`
computeSig(row) == ToString(RowTs(row)) \o "__" \o ToString(RowPc(row))

\* seenSig[key] || ""
StoredSig(map, key) == IF key \in DOMAIN map THEN map[key] ELSE ""

\* (seenSig[c.group_key] || "") !== sig
isUnseenWith(map, row) == StoredSig(map, row.group_key) # computeSig(row)

isUnseen(row) == isUnseenWith(seenSig, row)

RECURSIVE InsertByActivity(_, _)
\* The place Array.prototype.sort (stable) gives a row among rows already
\* sorted by descending timestamp: behind the rows that are not older.
InsertByActivity(sorted, row) ==
    IF sorted = <<>> THEN <<row>>
    ELSE IF RowTs(Head(sorted)) >= RowTs(row)
    THEN <<Head(sorted)>> \o InsertByActivity(Tail(sorted), row)
    ELSE <<row>> \o sorted

RECURSIVE SortByActivity(_)
SortByActivity(rows) ==
    IF rows = <<>> THEN <<>>
    ELSE InsertByActivity(SortByActivity(SubSeq(rows, 1, Len(rows) - 1)), rows[Len(rows)])

\* A fetchOverview call awaiting its response.
OverviewCall == [kind |-> "overview", key |-> NoKey, isUnattached |-> FALSE,
                 sids |-> <<>>, chantier_id |-> <<>>]

\* The rows on display, both tables.
InboxRows == unattached \o chantiers

\* The page mounted: the useState initial values, the seen signatures read
\* from localStorage, and fetchOverview up to its await.
InboxMounted ==
    /\ unattached = <<>>
    /\ chantiers = <<>>
    /\ deletingKey = NoKey
    /\ deleteError = ""
    /\ seenSig = EmptyMap
    /\ seenStorage = EmptyMap
    /\ confirmDialog = NoDialog
    /\ inboxServer = [unattached |-> <<GroupU, GroupV>>, chantiers |-> <<ChantierW>>,
                      activity |-> 0, overviews |-> 1]
    /\ inboxCalls = <<OverviewCall>>

InboxIdle == InboxMounted

\* No script runs while the confirm dialog is open.
InboxRuns == confirmDialog.status # "open"

\* The backend records activity on a group or a chantier: a later timestamp,
\* one more photo, or both.
ServerActivity ==
    /\ inboxServer.activity < MaxActivity
    /\ \E tab \in {"unattached", "chantiers"}, dTs \in {0, 1}, dPc \in {0, 1} :
         \E i \in 1..Len(inboxServer[tab]) :
           LET row == inboxServer[tab][i]
               next == [row EXCEPT
                          !.updated_at = IF row.type = "inbox" THEN RowTs(row) + dTs ELSE @,
                          !.last_activity_at = IF row.type = "chantier" THEN RowTs(row) + dTs
                                               ELSE @,
                          !.photo_count = IF @ >= 0 THEN @ + dPc ELSE @]
           IN /\ next # row
              /\ inboxServer' = [inboxServer EXCEPT ![tab][i] = next,
                                                    !.activity = @ + 1]
    /\ UNCHANGED <<unattached, chantiers, deletingKey, deleteError, seenSig, seenStorage,
                   confirmDialog, inboxCalls>>
    /\ UNCHANGED <<aggVars, visVars, genVars, savVars, sessVars, pubVars, extVars>>

\* Click on "Rafraichir": fetchOverview up to its await.
FetchOverview ==
    /\ InboxRuns
    /\ inboxServer.overviews < MaxOverviews
    /\ inboxCalls' = Append(inboxCalls, OverviewCall)
    /\ inboxServer' = [inboxServer EXCEPT !.overviews = @ + 1]
    /\ UNCHANGED <<unattached, chantiers, deletingKey, deleteError, seenSig, seenStorage,
                   confirmDialog>>
    /\ UNCHANGED <<aggVars, visVars, genVars, savVars, sessVars, pubVars, extVars>>

\* fetchOverview after its await: on success the groups and the chantiers of
\* the backend, each table sorted by descending timestamp; nothing on failure.
OverviewResponse ==
    /\ InboxRuns
    /\ \E i \in 1..Len(inboxCalls), ok \in BOOLEAN :
         /\ inboxCalls[i].kind = "overview"
         /\ inboxCalls' = RemoveAt(inboxCalls, i)
         /\ unattached' = IF ok THEN SortByActivity(inboxServer.unattached) ELSE unattached
         /\ chantiers' = IF ok THEN SortByActivity(inboxServer.chantiers) ELSE chantiers
    /\ UNCHANGED <<deletingKey, deleteError, seenSig, seenStorage, confirmDialog, inboxServer>>
    /\ UNCHANGED <<aggVars, visVars, genVars, savVars, sessVars, pubVars, extVars>>

\* Click on "Voir": markSeen stores the signature of the row, in the state
\* and in localStorage.
markSeen ==
    /\ InboxRuns
    /\ \E i \in 1..Len(InboxRows) :
         LET row == InboxRows[i]
             next == (row.group_key :> computeSig(row)) @@ seenSig
         IN /\ next # seenSig
            /\ seenSig' = next
            /\ seenStorage' = next
    /\ UNCHANGED <<unattached, chantiers, deletingKey, deleteError, confirmDialog,
                   inboxServer, inboxCalls>>
    /\ UNCHANGED <<aggVars, visVars, genVars, savVars, sessVars, pubVars, extVars>>

\* The page is loaded again: the state starts over, the seen signatures are
\* read from localStorage and fetchOverview runs; the calls of the page that
\* went away end nowhere.
InboxReload ==
    /\ InboxRuns
    /\ inboxServer.overviews < MaxOverviews
    /\ unattached' = <<>>
    /\ chantiers' = <<>>
    /\ deletingKey' = NoKey
    /\ deleteError' = ""
    /\ seenSig' = seenStorage
    /\ confirmDialog' = NoDialog
    /\ inboxCalls' = <<OverviewCall>>
    /\ inboxServer' = [inboxServer EXCEPT !.overviews = @ + 1]
    /\ UNCHANGED seenStorage
    /\ UNCHANGED <<aggVars, visVars, genVars, savVars, sessVars, pubVars, extVars>>

\* The DELETE call of handleDeleteRow for the row: the sessions still to be
\* deleted, or the chantier.
DeleteCall(row, isUnattached) ==
    [kind |-> "delete", key |-> row.group_key, isUnattached |-> isUnattached,
     sids |-> IF isUnattached THEN row.session_ids ELSE <<>>,
     chantier_id |-> row.chantier_id]

\* Click on the bin of a row: handleDeleteRow up to window.confirm.  The
\* error banner is cleared; nothing more happens while a deletion is under
\* way, or when the row has no session (group) or no chantier_id (chantier).
handleDeleteRow ==
    /\ InboxRuns
    /\ \E isUnattached \in BOOLEAN :
         \E i \in 1..Len(IF isUnattached THEN unattached ELSE chantiers) :
           LET row == (IF isUnattached THEN unattached ELSE chantiers)[i]
           IN /\ row.group_key # deletingKey
              /\ IF deletingKey # NoKey
                 THEN /\ deleteError' = ""
                      /\ UNCHANGED confirmDialog
                 ELSE IF isUnattached /\ row.session_ids = <<>>
                 THEN /\ deleteError' = NoSessionMessage
                      /\ UNCHANGED confirmDialog
                 ELSE IF ~isUnattached /\ row.chantier_id = <<>>
                 THEN /\ deleteError' = NoChantierIdMessage
                      /\ UNCHANGED confirmDialog
                 ELSE /\ deleteError' = ""
                      /\ confirmDialog' = [status |-> "open", key |-> row.group_key,
                                           isUnattached |-> isUnattached]
    /\ UNCHANGED <<unattached, chantiers, deletingKey, seenSig, seenStorage, inboxServer,
                   inboxCalls>>
    /\ UNCHANGED <<aggVars, visVars, genVars, savVars, sessVars, pubVars, extVars>>

\* A plausible slip: the answer of the dialog is not looked at.
ConfirmIgnored(answer) == TRUE

\* const ok = window.confirm(...); if (!ok) return;
ConfirmAccepted(answer) == answer

\* The user answers the dialog and handleDeleteRow goes on: it returns when
\* the answer is no; otherwise setDeletingKey(row.group_key) and the first
\* DELETE is sent.
ConfirmAnswered ==
    /\ confirmDialog.status = "open"
    /\ \E answer \in BOOLEAN :
         LET tab == IF confirmDialog.isUnattached THEN unattached ELSE chantiers
             row == tab[CHOOSE i \in 1..Len(tab) : tab[i].group_key = confirmDialog.key]
         IN /\ confirmDialog' = [confirmDialog EXCEPT
                                   !.status = IF answer THEN "accepted" ELSE "declined"]
            /\ IF ConfirmAccepted(answer)
               THEN /\ deletingKey' = row.group_key
                    /\ inboxCalls' = Append(inboxCalls,
                                            DeleteCall(row, confirmDialog.isUnattached))
               ELSE UNCHANGED <<deletingKey, inboxCalls>>
    /\ UNCHANGED <<unattached, chantiers, deleteError, seenSig, seenStorage, inboxServer>>
    /\ UNCHANGED <<aggVars, visVars, genVars, savVars, sessVars, pubVars, extVars>>

RECURSIVE WithoutSession(_, _)
\* The groups of the backend once session sid is deleted; a group left without
\* session goes away.
WithoutSession(groups, sid) ==
    IF groups = <<>> THEN <<>>
    ELSE LET g == Head(groups)
             left == FilterOut(g.session_ids, {sid})
         IN (IF left = g.session_ids THEN <<g>>
             ELSE IF left = <<>> THEN <<>>
             ELSE <<[g EXCEPT !.session_ids = left]>>)
            \o WithoutSession(Tail(groups), sid)

RECURSIVE WithoutChantier(_, _)
WithoutChantier(rows, id) ==
    IF rows = <<>> THEN <<>>
    ELSE (IF Head(rows).chantier_id = id THEN <<>> ELSE <<Head(rows)>>)
         \o WithoutChantier(Tail(rows), id)

\* A DELETE of handleDeleteRow ends.  A failure shows the error banner and
\* ends the call (finally: setDeletingKey(null)).  A success goes on with the
\* DELETE of the next session, or with fetchOverview when none is left.
DeleteResponse ==
    /\ InboxRuns
    /\ \E i \in 1..Len(inboxCalls), ok \in BOOLEAN :
         LET call == inboxCalls[i]
             rest == IF call.sids = <<>> THEN <<>> ELSE Tail(call.sids)
         IN /\ call.kind = "delete"
            /\ IF ~ok
               THEN /\ inboxCalls' = RemoveAt(inboxCalls, i)
                    /\ deleteError' = DeleteFailedMessage
                    /\ deletingKey' = NoKey
                    /\ UNCHANGED inboxServer
               ELSE /\ inboxServer' =
                         IF call.isUnattached
                         THEN [inboxServer EXCEPT
                                 !.unattached = WithoutSession(@, Head(call.sids))]
                         ELSE [inboxServer EXCEPT
                                 !.chantiers = WithoutChantier(@, call.chantier_id)]
                    /\ inboxCalls' =
                         [inboxCalls EXCEPT
                            ![i] = IF rest = <<>> THEN [call EXCEPT !.kind = "refresh", !.sids = <<>>]
                                   ELSE [call EXCEPT !.sids = rest]]
                    /\ UNCHANGED <<deleteError, deletingKey>>
    /\ UNCHANGED <<unattached, chantiers, seenSig, seenStorage, confirmDialog>>
    /\ UNCHANGED <<aggVars, visVars, genVars, savVars, sessVars, pubVars, extVars>>

\* The fetchOverview that handleDeleteRow awaits ends: the rows on success,
\* then finally setDeletingKey(null).
DeleteRefreshResponse ==
    /\ InboxRuns
    /\ \E i \in 1..Len(inboxCalls), ok \in BOOLEAN :
         /\ inboxCalls[i].kind = "refresh"
         /\ inboxCalls' = RemoveAt(inboxCalls, i)
         /\ unattached' = IF ok THEN SortByActivity(inboxServer.unattached) ELSE unattached
         /\ chantiers' = IF ok THEN SortByActivity(inboxServer.chantiers) ELSE chantiers
         /\ deletingKey' = NoKey
    /\ UNCHANGED <<deleteError, seenSig, seenStorage, confirmDialog, inboxServer>>
    /\ UNCHANGED <<aggVars, visVars, genVars, savVars, sessVars, pubVars, extVars>>

\* ---- deletion in the inbox

\* The number of DELETE requests in flight.
DeletesInFlight(calls) == Cardinality({i \in 1..Len(calls) : calls[i].kind = "delete"})

\* C13: a DELETE call starts only in the step in which the dialog opened by
\* handleDeleteRow is answered yes, for the row the dialog is about, which
\* becomes the row under deletion; when the answer is no, no request is sent
\* and deletingKey and the rows on display are left as they are.
C13_DeleteAfterConfirm ==
    [][/\ DeletesInFlight(inboxCalls') > DeletesInFlight(inboxCalls) =>
            /\ confirmDialog.status = "open"
            /\ confirmDialog'.status = "accepted"
            /\ Len(inboxCalls') = Len(inboxCalls) + 1
            /\ inboxCalls'[Len(inboxCalls')].key = confirmDialog.key
            /\ deletingKey' = confirmDialog.key
       /\ (confirmDialog.status = "open" /\ confirmDialog'.status = "declined") =>
            /\ inboxCalls' = inboxCalls
            /\ deletingKey' = deletingKey
            /\ unattached' = unattached /\ chantiers' = chantiers
       /\ \A i \in 1..Len(inboxCalls) :
            (inboxCalls[i].kind = "delete" /\ Len(inboxCalls') = Len(inboxCalls)
             /\ inboxCalls'[i].kind = "delete") =>
               inboxCalls'[i].key = inboxCalls[i].key]_vars

\* The dialog of the group of two sessions was accepted: both sessions were
\* deleted, and the group is gone from the backend and from the display.
C13_Witness ==
    /\ confirmDialog.status = "accepted"
    /\ confirmDialog.key = GroupU.group_key
    /\ inboxCalls = <<>> /\ deletingKey = NoKey
    /\ \A i \in 1..Len(unattached) : unattached[i].group_key # GroupU.group_key
    /\ \A i \in 1..Len(inboxServer.unattached) :
          inboxServer.unattached[i].group_key # GroupU.group_key
    /\ unattached # <<>>

InboxKeys == {GroupU.group_key, GroupV.group_key, ChantierW.group_key}

\* The rows the backend can come to hold.
RowPool ==
    {[row EXCEPT !.updated_at = IF row.type = "inbox" THEN ts ELSE @,
                 !.last_activity_at = IF row.type = "chantier" THEN ts ELSE @,
                 !.photo_count = pc] :
        row \in {GroupU, GroupV, ChantierW}, ts \in 1..(MaxActivity + 2),
        pc \in -1..(MaxActivity + 1)}

MaxVisits == 2

NoSlug == <<>>
SlugPublished == <<"ok">>
SlugDraft == <<"draft">>
SlugMissing == <<"x">>
\* The slug of a published report that holds no item.
SlugEmpty == <<"e">>
PubSlugs == {NoSlug, SlugPublished, SlugEmpty, SlugDraft, SlugMissing}
PubPublishedSlugs == {SlugPublished, SlugEmpty}
PubPages == {"chantier", "session"}

NoReport == [present |-> FALSE]

\* The report the backend serves for a published slug.
PublicReport(pg, sl) ==
    [present |-> TRUE, page |-> pg, slug |-> sl,
     items |-> IF sl = SlugEmpty THEN <<>> ELSE <<"a", "b">>]

\* How GET /chantiers/public/{slug} or /sessions/public/{slug} can end: 2xx
\* with the report when the slug is published, a non-2xx status with or
\* without body text, or a rejected fetch with or without a message.
PubOutcomes(sl) ==
    (IF sl \in PubPublishedSlugs THEN {[kind |-> "ok", status |-> 200, text |-> ""]}
     ELSE {[kind |-> "status", status |-> 404, text |-> ""],
           [kind |-> "status", status |-> 404, text |-> "Not published"]})
    \cup {[kind |-> "status", status |-> 500, text |-> ""],
          [kind |-> "throw", status |-> 0, text |-> "Failed to fetch"],
          [kind |-> "throw", status |-> 0, text |-> ""]}

PubDefaultMessage == "Impossible de charger le rapport."

\* The message the chantier page keeps of a failed load:
\* txt || `Erreur ${res.status}`, or e.message || the default.
PubErrorText(outcome) ==
    IF outcome.kind = "status"
    THEN (IF outcome.text # "" THEN outcome.text ELSE "Erreur " \o ToString(outcome.status))
    ELSE IF outcome.text # "" THEN outcome.text
    ELSE PubDefaultMessage

\* A plausible slip: setLoading(false) on the success path only.
LoadingAfterSuccessOnly(ok) == ~ok

\* finally { setLoading(false) }
LoadingAfterLoad(ok) == FALSE

\* What the page renders: "Chargement..." while loading or without slug,
\* "Rapport introuvable" / "Session introuvable" without data, else the
\* report.  The session page reads published_items[currentIndex].annotated_url
\* first: without an item at that index the render throws a TypeError.
PubView ==
    IF pubLoading \/ pubSlug = NoSlug THEN "loading"
    ELSE IF ~pubData.present THEN "notfound"
    ELSE IF pubPage = "session" /\ pubIndex + 1 \notin 1..Len(pubData.items) THEN "throws"
    ELSE "report"

\* The fetch of the mounted page, as issued by its effect.
PubRequest(pg, sl, visit) == [page |-> pg, slug |-> sl, method |-> "GET", visit |-> visit]

\* A page mounted with a slug: the useState initial values, and the effect,
\* which returns at once without slug and otherwise starts load().
PubMounted(pg, sl) ==
    /\ pubPage = pg
    /\ pubSlug = sl
    /\ pubData = NoReport
    /\ pubLoading = TRUE
    /\ pubErrMsg = ""
    /\ pubRequests = IF sl = NoSlug THEN <<>> ELSE <<PubRequest(pg, sl, 0)>>
    /\ pubIndex = 0
    /\ pubVisits = 0

PubIdle == PubMounted("chantier", NoSlug)

\* load() after its await.  The page that issued it is still mounted: the
\* report is kept on 2xx, no data on a failure (with its message on the
\* chantier page), and loading ends.  Otherwise (cancelled, or the state of
\* a page that is gone) nothing of the mounted page changes.
PubLoadResponse ==
    /\ \E i \in 1..Len(pubRequests) :
         \E outcome \in PubOutcomes(pubRequests[i].slug) :
           LET req == pubRequests[i]
               ok == outcome.kind = "ok"
           IN /\ pubRequests' = RemoveAt(pubRequests, i)
              /\ IF req.visit = pubVisits
                 THEN /\ pubData' = IF ok THEN PublicReport(req.page, req.slug) ELSE NoReport
                      /\ pubErrMsg' = IF req.page = "chantier" /\ ~ok
                                      THEN PubErrorText(outcome) ELSE pubErrMsg
                      /\ pubLoading' = LoadingAfterLoad(ok)
                 ELSE UNCHANGED <<pubData, pubErrMsg, pubLoading>>
    /\ UNCHANGED <<pubPage, pubSlug, pubIndex, pubVisits>>
    /\ UNCHANGED <<aggVars, visVars, genVars, savVars, sessVars, inboxVars, extVars>>

\* The visitor opens another public link: a new page is mounted.
PubNavigate ==
    /\ pubVisits < MaxVisits
    /\ \E pg \in PubPages, sl \in PubSlugs :
         /\ pubPage' = pg
         /\ pubSlug' = sl
         /\ pubRequests' = IF sl = NoSlug THEN pubRequests
                           ELSE Append(pubRequests, PubRequest(pg, sl, pubVisits + 1))
    /\ pubData' = NoReport
    /\ pubLoading' = TRUE
    /\ pubErrMsg' = ""
    /\ pubIndex' = 0
    /\ pubVisits' = pubVisits + 1
    /\ UNCHANGED <<aggVars, visVars, genVars, savVars, sessVars, inboxVars, extVars>>

\* handlePrev of the session page
handlePrev ==
    /\ pubPage = "session" /\ PubView = "report"
    /\ pubIndex' = IF pubIndex > 0 THEN pubIndex - 1 ELSE pubIndex
    /\ pubIndex' # pubIndex
    /\ UNCHANGED <<pubPage, pubSlug, pubData, pubLoading, pubErrMsg, pubRequests, pubVisits>>
    /\ UNCHANGED <<aggVars, visVars, genVars, savVars, sessVars, inboxVars, extVars>>

\* handleNext of the session page
handleNext ==
    /\ pubPage = "session" /\ PubView = "report"
    /\ pubIndex' = IF pubIndex < Len(pubData.items) - 1 THEN pubIndex + 1 ELSE pubIndex
    /\ pubIndex' # pubIndex
    /\ UNCHANGED <<pubPage, pubSlug, pubData, pubLoading, pubErrMsg, pubRequests, pubVisits>>
    /\ UNCHANGED <<aggVars, visVars, genVars, savVars, sessVars, inboxVars, extVars>>

PubFailingSlugs == {SlugDraft, SlugMissing}

\* C15: with a non-empty slug a load ends and the page leaves the loading
\* state; with a slug that is missing or not published it comes to show
\* "not found" (unless the visitor leaves first), and stays there as long as
\* the page is mounted.  The report is shown only with the report of the
\* published slug of the mounted page, so never after a failed load.
\* Every request the pages issue is a GET.
C15_FailedLoadSettles ==
    /\ [](\A i \in 1..Len(pubRequests) : pubRequests[i].method = "GET")
    /\ [](PubView = "report" =>
            /\ pubSlug \in PubPublishedSlugs
            /\ pubData = PublicReport(pubPage, pubSlug))
    /\ []((pubSlug # NoSlug /\ ~pubLoading /\ ~pubData.present) => PubView = "notfound")
    /\ [][(PubView = "notfound" /\ pubVisits' = pubVisits) => PubView' = "notfound"]_vars
    /\ (pubSlug # NoSlug /\ pubLoading) ~> (~pubLoading \/ pubSlug = NoSlug)
    /\ (pubSlug \in PubFailingSlugs)
          ~> (PubView = "notfound" \/ pubSlug \notin PubFailingSlugs)

\* The chantier page, opened on a slug that is not published, got a 404 with
\* a body: it shows "Rapport introuvable" with that text, nothing in flight.
C15_Witness ==
    /\ pubPage = "chantier" /\ pubSlug = SlugDraft
    /\ pubRequests = <<>>
    /\ ~pubLoading /\ ~pubData.present
    /\ pubErrMsg = "Not published"
    /\ PubView = "notfound"

\* C30: whenever the session page holds a loaded session and is not
\* loading, currentIndex is the index of one of its published items.
C30_IndexInRange ==
    (pubPage = "session" /\ pubData.present /\ ~pubLoading)
       => (0 <= pubIndex /\ pubIndex < Len(pubData.items))

\* C16: a page mounted without slug comes to show the "not found" state
\* (unless the visitor leaves for another link first).
C16_NoSlugNotFound ==
    (pubSlug = NoSlug) ~> (PubView = "notfound" \/ pubSlug # NoSlug)

(***************************************************************************)
(* The notes of an unattached session across a save and a load:            *)
(* saveNotesToBackend writes notes_sav as a JSON text, the load effect     *)
(* parses it and merges the assets of notes_sav_items into the notes.      *)
(***************************************************************************)
\* JSON values, [t, val]: val is the items of an array, the members
\* [key, value] of an object in the order written, the characters of a
\* string, the value of a number.
JsonArray(items) == [t |-> "array", val |-> items]
JsonString(chars) == [t |-> "string", val |-> chars]
JsonNumber(n) == [t |-> "number", val |-> <<n>>]
JsonObject(members) == [t |-> "object", val |-> members]
JsonNull == [t |-> "null", val |-> <<>>]
JsUndefined == [t |-> "undefined", val |-> <<>>]

\* obj[key] of a parsed object: the last member of that key, or undefined.
JsonMember(obj, key) ==
    LET at == {i \in 1..Len(obj.val) : obj.val[i].key = key}
    IN IF at = {} THEN JsUndefined
       ELSE obj.val[CHOOSE i \in at : \A j \in at : j <= i].value

\* A text, [chars, parses, doc]: its characters (those of an array or of an
\* object are cut down to the brackets), whether JSON.parse accepts it, and
\* the value JSON.parse returns.
PlainText(chars) == [chars |-> chars, parses |-> FALSE, doc |-> JsUndefined]

\* JSON.stringify of an array or of an object
JSONstringify(value) ==
    [chars |-> IF value.t = "array" THEN <<"[", "]">> ELSE <<"{", "}">>,
     parses |-> TRUE, doc |-> value]

\* A plausible slip: the notes alone are written, as the bare array of the
\* older format.
NotesSavJsonArrayOnly(noteList, global) == JSONstringify(JsonArray(noteList))

\* saveNotesToBackend outside chantier mode:
\* JSON.stringify({ notes, global: globalSavNote || "", v: 1 })
NotesSavJson(noteList, global) ==
    JSONstringify(JsonObject(
        <<[key |-> "notes", value |-> JsonArray(noteList)],
          [key |-> "global", value |-> JsonString(IF global = <<>> THEN <<>> ELSE global)],
          [key |-> "v", value |-> JsonNumber(1)]>>))

\* The load effect on chosen.notes_sav: parsedNotes and parsedGlobal.  A
\* blank text gives neither; a text JSON.parse rejects, or accepts as
\* something that is no array and no object, is the general note; an array
\* is the notes; an object gives its notes when they are an array and its
\* global when it is a string.
ParseNotesSav(rawNotes) ==
    IF rawNotes.chars = <<>> \/ Trim(rawNotes.chars) = <<>>
    THEN [notes |-> <<>>, global |-> <<>>]
    ELSE IF ~rawNotes.parses THEN [notes |-> <<>>, global |-> rawNotes.chars]
    ELSE LET obj == rawNotes.doc
         IN IF obj.t = "array" THEN [notes |-> obj.val, global |-> <<>>]
            ELSE IF obj.t = "object"
            THEN [notes |-> IF JsonMember(obj, "notes").t = "array"
                            THEN JsonMember(obj, "notes").val ELSE <<>>,
                  global |-> IF JsonMember(obj, "global").t = "string"
                             THEN JsonMember(obj, "global").val ELSE <<>>]
            ELSE [notes |-> <<>>, global |-> rawNotes.chars]

\* ---- the assets of the notes

\* An asset is [asset_id, filename, asset_url]; a field the object lacks is
\* NoField, and asset_url is [kind, path] with kind "abs" (http:// or
\* https://), "rel" or "none".
NoField == <<>>
NoUrl == [kind |-> "none", path |-> <<>>]
buildUrl(path) == [kind |-> "abs", path |-> <<"api">> \o path]

\* The asset_url mergeAssetsFromBackendNotes gives a backend asset.
NormalizedUrl(a, sessionId, nid) ==
    IF a.asset_url.kind = "abs" THEN a.asset_url
    ELSE IF a.asset_url.kind = "rel" THEN buildUrl(a.asset_url.path)
    ELSE buildUrl(<<"sessions", sessionId, "notes", nid, "assets", a.asset_id>>)

\* { ...old, ...a }
SpreadAsset(old, a) ==
    [asset_id |-> a.asset_id,
     filename |-> IF a.filename # NoField THEN a.filename ELSE old.filename,
     asset_url |-> IF a.asset_url.kind # "none" THEN a.asset_url ELSE old.asset_url]

\* A plausible slip: the asset is added at the end, whatever the list holds.
MapSetAppending(entries, a, spread) == Append(entries, a)

\* Map.prototype.set on the values of a Map keyed by asset_id, in insertion
\* order: the entry of the key is replaced where it stands (by the spread of
\* the old value and the new one when spread is asked for), a new key is
\* added at the end.
MapSet(entries, a, spread) ==
    IF \E i \in 1..Len(entries) : entries[i].asset_id = a.asset_id
    THEN [i \in 1..Len(entries) |->
            IF entries[i].asset_id = a.asset_id
            THEN (IF spread THEN SpreadAsset(entries[i], a) ELSE a)
            ELSE entries[i]]
    ELSE Append(entries, a)

RECURSIVE MapSetAll(_, _, _)
\* The values of the Map after the assets are set one after the other.
MapSetAll(entries, assets, spread) ==
    IF assets = <<>> THEN entries
    ELSE MapSetAll(MapSet(entries, Head(assets), spread), Tail(assets), spread)

\* map[nid] of mergeAssetsFromBackendNotes: the normalized assets of the
\* last item of that note_id, <<>> when there is none.
BackendAssetsOf(backendItems, nid, sessionId) ==
    LET at == {i \in 1..Len(backendItems) :
                 backendItems[i].note_id # NoField /\ backendItems[i].note_id = nid}
    IN IF at = {} THEN <<>>
       ELSE LET it == backendItems[CHOOSE i \in at : \A j \in at : j <= i]
            IN [k \in 1..Len(it.assets) |->
                  [it.assets[k] EXCEPT
                     !.asset_url = NormalizedUrl(it.assets[k], sessionId, nid)]]

\* mergeAssetsFromBackendNotes(localNotes, backendItems, sessionId);
\* backendItems is [present, list].
mergeAssetsFromBackendNotes(localNotes, backendItems, sessionId) ==
    IF ~backendItems.present \/ sessionId = <<>> THEN localNotes
    ELSE [i \in 1..Len(localNotes) |->
            LET n == localNotes[i]
                backendAssets == BackendAssetsOf(backendItems.list, n.id, sessionId)
            IN IF backendAssets = <<>> THEN n
               ELSE [n EXCEPT !.assets =
                        MapSetAll(MapSetAll(<<>>, n.assets, FALSE), backendAssets, TRUE)]]

\* ---- the session, its page and its backend

AssetLocal1 == [asset_id |-> <<"v1">>, filename |-> <<"f">>,
                asset_url |-> buildUrl(<<"v1">>)]
AssetLocal2 == [asset_id |-> <<"v2">>, filename |-> <<"g">>,
                asset_url |-> buildUrl(<<"v2">>)]
AssetBack1 == [asset_id |-> <<"v1">>, filename |-> NoField, asset_url |-> NoUrl]
AssetBack2 == [asset_id |-> <<"v2">>, filename |-> <<"h">>,
               asset_url |-> [kind |-> "rel", path |-> <<"r">>]]
AssetBack3 == [asset_id |-> <<"v3">>, filename |-> <<"k">>,
               asset_url |-> [kind |-> "abs", path |-> <<"x">>]]

NoteWithAssets == [id |-> <<"note", 1, 1>>, text |-> <<"a", " ">>, photo_ids |-> <<>>,
                   assets |-> <<AssetLocal1, AssetLocal2>>]
NotePlaceholder == [id |-> <<"note_tmp", 0, 1>>, text |-> <<>>, photo_ids |-> <<Pid1>>,
                    assets |-> <<AssetLocal2>>]

NoteLists == {<<>>, <<NoteOld>>, <<NoteWithAssets>>, <<NoteWithAssets, NoteOld>>,
              <<NoteOld, NoteWithAssets>>, <<NotePlaceholder, NoteWithAssets>>}
GlobalTexts == {<<>>, <<"g">>, <<" ">>}

\* notes_sav_items: absent, empty, or items of the notes and of a note the
\* list does not hold.
SavItemsPool ==
    {[present |-> FALSE, list |-> <<>>],
     [present |-> TRUE, list |-> <<>>],
     [present |-> TRUE,
      list |-> <<[note_id |-> NoteWithAssets.id, assets |-> <<AssetBack1, AssetBack3>>]>>],
     [present |-> TRUE,
      list |-> <<[note_id |-> NoteWithAssets.id, assets |-> <<AssetBack1>>],
                 [note_id |-> NoteWithAssets.id,
                  assets |-> <<AssetBack3, AssetBack2, AssetBack3>>]>>],
     [present |-> TRUE,
      list |-> <<[note_id |-> NoField, assets |-> <<AssetBack3>>],
                 [note_id |-> NoteOld.id, assets |-> <<>>],
                 [note_id |-> NotePlaceholder.id, assets |-> <<AssetBack2>>]>>]}

\* notes_sav as earlier versions and other clients left it.
StoredTextPool ==
    {PlainText(<<>>), PlainText(<<" ">>), PlainText(<<"g">>),
     [chars |-> <<"4">>, parses |-> TRUE, doc |-> JsonNumber(4)],
     [chars |-> <<"n">>, parses |-> TRUE, doc |-> JsonNull],
     JSONstringify(JsonArray(<<NoteOld>>)),
     JSONstringify(JsonObject(<<[key |-> "global", value |-> JsonNumber(4)]>>))}

NotLoaded == [present |-> FALSE, notes |-> <<>>, global |-> <<>>]

NoteStoreIdle ==
    /\ nsEdited = [notes |-> <<>>, global |-> <<>>]
    /\ nsStored = PlainText(<<>>)
    /\ nsItems = [present |-> FALSE, list |-> <<>>]
    /\ nsWritten = FALSE
    /\ nsLoaded = NotLoaded

\* A page holding notes and a general note, the session as the backend has it.
NoteStoreMounted ==
    /\ nsEdited \in [notes : NoteLists, global : GlobalTexts]
    /\ nsStored \in StoredTextPool
    /\ nsItems \in SavItemsPool
    /\ nsWritten = FALSE
    /\ nsLoaded = NotLoaded

\* saveNotesToBackend outside chantier mode, its PATCH answered with 2xx: the
\* backend holds the text sent.
NoteStoreSave ==
    /\ nsStored' = NotesSavJson(nsEdited.notes, nsEdited.global)
    /\ nsWritten' = TRUE
    /\ nsLoaded' = NotLoaded
    /\ UNCHANGED <<nsEdited, nsItems>>
    /\ UNCHANGED <<aggVars, visVars, genVars, savVars, sessVars, pubVars, inboxVars, assetVars,
                   ctxVars, draftVars>>

\* The load effect of the next visit, outside chantier mode: notes_sav is
\* parsed and the assets of notes_sav_items are merged into the notes.
NoteStoreLoad ==
    /\ ~nsLoaded.present
    /\ LET parsed == ParseNotesSav(nsStored)
       IN nsLoaded' = [present |-> TRUE,
                       notes |-> mergeAssetsFromBackendNotes(parsed.notes, nsItems, KeyS),
                       global |-> parsed.global]
    /\ UNCHANGED <<nsEdited, nsStored, nsItems, nsWritten>>
    /\ UNCHANGED <<aggVars, visVars, genVars, savVars, sessVars, pubVars, inboxVars, assetVars,
                   ctxVars, draftVars>>

\* id, text and photo_ids of the notes, in order
NoteCores(noteList) ==
    [i \in 1..Len(noteList) |->
        [id |-> noteList[i].id, text |-> noteList[i].text,
         photo_ids |-> noteList[i].photo_ids]]

\* C26: outside chantier mode, the notes_sav text saveNotesToBackend wrote,
\* returned unchanged by the next load, parses back to the same notes (ids,
\* texts, photo ids, order) and to the same general note.
C26_NotesSavRoundTrip ==
    (nsWritten /\ nsLoaded.present)
       => /\ NoteCores(nsLoaded.notes) = NoteCores(nsEdited.notes)
          /\ nsLoaded.global = nsEdited.global

C26_Witness ==
    /\ nsWritten /\ nsLoaded.present
    /\ Len(nsLoaded.notes) = 2
    /\ nsLoaded.notes[1].id = NotePlaceholder.id
    /\ nsLoaded.global = <<" ">>

\* ---- the visuals of a note on the SAV detail page

MaxAssetCalls == 1

VisualUploadedMessage == "Visuel joint televerse."
VisualDeletedMessage == "Visuel supprime."
UploadIncompleteMessage == "Upload OK mais reponse incomplete (asset manquant)."
UploadDefaultMessage == "Erreur upload visuel joint."
DeleteAssetDefaultMessage == "Erreur suppression visuel."

\* How the POST of a visual can end: a 2xx response with its body
\* { asset, asset_url } (hasAsset: the asset is there and has an asset_id), a
\* non-2xx response, a rejected fetch.
UploadOutcomes ==
    {[kind |-> "ok", hasAsset |-> TRUE, asset_url |-> <<"p">>,
      asset |-> [asset_id |-> <<"v1">>, filename |-> <<"f">>, asset_url |-> NoUrl]],
     [kind |-> "ok", hasAsset |-> TRUE, asset_url |-> NoField,
      asset |-> [asset_id |-> <<"v2">>, filename |-> NoField, asset_url |-> NoUrl]],
     [kind |-> "ok", hasAsset |-> FALSE, asset_url |-> NoField,
      asset |-> [asset_id |-> NoField, filename |-> NoField, asset_url |-> NoUrl]],
     [kind |-> "status", hasAsset |-> FALSE, asset_url |-> NoField,
      asset |-> [asset_id |-> NoField, filename |-> NoField, asset_url |-> NoUrl]],
     [kind |-> "throw", hasAsset |-> FALSE, asset_url |-> NoField,
      asset |-> [asset_id |-> NoField, filename |-> NoField, asset_url |-> NoUrl]]}

\* The updater handleNoteVisualChange gives setNotes: the asset, with its
\* full URL, joins the note of the upload; a note that is not in the list is
\* created at its head from the text and the photos of the editor.
AttachAsset(noteList, call, data) ==
    LET fullAssetUrl ==
            IF data.asset_url # NoField THEN buildUrl(data.asset_url)
            ELSE buildUrl(<<"sessions", call.session, "notes", call.noteId,
                            "assets", data.asset.asset_id>>)
        stored == [data.asset EXCEPT !.asset_url = fullAssetUrl]
    IN IF call.noteId \notin NoteIds(noteList)
       THEN <<[id |-> call.noteId, text |-> call.text, photo_ids |-> call.photos,
               assets |-> <<stored>>]>> \o noteList
       ELSE LET idx == CHOOSE i \in 1..Len(noteList) :
                          /\ noteList[i].id = call.noteId
                          /\ \A j \in 1..(i - 1) : noteList[j].id # call.noteId
            IN [noteList EXCEPT ![idx].assets =
                   MapSet(MapSetAll(<<>>, noteList[idx].assets, FALSE), stored, FALSE)]

RECURSIVE AssetsWithout(_, _)
\* assets.filter((a) => a.asset_id !== assetId)
AssetsWithout(assets, assetId) ==
    IF assets = <<>> THEN <<>>
    ELSE (IF Head(assets).asset_id = assetId THEN <<>> ELSE <<Head(assets)>>)
         \o AssetsWithout(Tail(assets), assetId)

\* A file is chosen in the input of the note editor: handleNoteVisualChange up
\* to its await.  A note id is made up when no note is active.  (The preview
\* selection and the uploading flag of the button are left out.)
handleNoteVisualChange ==
    /\ SavRendered
    /\ effectiveSessionId # <<>>
    /\ Len(assetCalls) < MaxAssetCalls
    /\ \E rnd \in RandomPool :
         LET noteId == IF activeNoteId # NoNote THEN activeNoteId
                       ELSE uid("note_tmp", rnd)
         IN /\ activeNoteId' = noteId
            /\ assetCalls' = Append(assetCalls,
                                    [kind |-> "upload", session |-> effectiveSessionId,
                                     noteId |-> noteId, assetId |-> NoField,
                                     text |-> noteText, photos |-> notePhotos])
    /\ UNCHANGED <<savKey, savLoads, loading, error, detail, loadedSessionId, chantierMeta,
                   chantierPhotoIdMap, includeMap, draftSaves, notes, noteText, notePhotos,
                   toast, nowMs, notesSaveTimer, notesSaves>>
    /\ UNCHANGED <<globalSavNote, chantier, publishing, publishCalls>>
    /\ UNCHANGED <<aggVars, visVars, genVars, sessVars, pubVars, inboxVars, noteStoreVars,
                   ctxVars, draftVars>>

\* handleNoteVisualChange after its await: the asset joins the notes, with
\* the effect on [notes] that arms the autosave timer, and a toast tells the
\* outcome.
NoteVisualResponse ==
    /\ \E i \in 1..Len(assetCalls), data \in UploadOutcomes :
         LET call == assetCalls[i]
             done == data.kind = "ok" /\ data.hasAsset
         IN /\ call.kind = "upload"
            /\ assetCalls' = RemoveAt(assetCalls, i)
            /\ notes' = IF done THEN AttachAsset(notes, call, data) ELSE notes
            /\ Len(notes') <= MaxNotes
            /\ notesSaveTimer' = IF done THEN useDebouncedCallback(notesSaveTimer)
                                  ELSE notesSaveTimer
            /\ toast' = IF done THEN Toast("success", VisualUploadedMessage)
                        ELSE IF data.kind = "ok" THEN Toast("error", UploadIncompleteMessage)
                        ELSE IF data.kind = "status"
                        THEN Toast("error", "Upload visuel (500) : Erreur")
                        ELSE Toast("error", UploadDefaultMessage)
    /\ UNCHANGED <<savKey, savLoads, loading, error, detail, loadedSessionId, chantierMeta,
                   chantierPhotoIdMap, includeMap, draftSaves, activeNoteId, noteText,
                   notePhotos, nowMs, notesSaves>>
    /\ UNCHANGED <<globalSavNote, chantier, publishing, publishCalls>>
    /\ UNCHANGED <<aggVars, visVars, genVars, sessVars, pubVars, inboxVars, noteStoreVars,
                   ctxVars, draftVars>>

\* The cross of a visual of the active note: deleteNoteAsset up to its await.
deleteNoteAsset ==
    /\ SavRendered
    /\ effectiveSessionId # <<>>
    /\ activeNoteId # NoNote /\ activeNoteId \in NoteIds(notes)
    /\ Len(assetCalls) < MaxAssetCalls
    /\ LET n == notes[CHOOSE i \in 1..Len(notes) :
                        /\ notes[i].id = activeNoteId
                        /\ \A j \in 1..(i - 1) : notes[j].id # activeNoteId]
       IN \E k \in 1..Len(n.assets) :
             assetCalls' = Append(assetCalls,
                                  [kind |-> "delete", session |-> effectiveSessionId,
                                   noteId |-> activeNoteId,
                                   assetId |-> n.assets[k].asset_id,
                                   text |-> <<>>, photos |-> <<>>])
    /\ UNCHANGED <<savKey, savLoads, loading, error, detail, loadedSessionId, chantierMeta,
                   chantierPhotoIdMap, includeMap, draftSaves, notes, activeNoteId, noteText,
                   notePhotos, toast, nowMs, notesSaveTimer, notesSaves>>
    /\ UNCHANGED <<globalSavNote, chantier, publishing, publishCalls>>
    /\ UNCHANGED <<aggVars, visVars, genVars, sessVars, pubVars, inboxVars, noteStoreVars,
                   ctxVars, draftVars>>

\* deleteNoteAsset after its await: after a 2xx response the asset leaves
\* the notes of that id, with the effect on [notes] that arms the autosave
\* timer; a toast tells the outcome.
DeleteAssetResponse ==
    /\ \E i \in 1..Len(assetCalls), ok \in BOOLEAN :
         LET call == assetCalls[i]
         IN /\ call.kind = "delete"
            /\ assetCalls' = RemoveAt(assetCalls, i)
            /\ notes' = IF ok
                        THEN [j \in 1..Len(notes) |->
                                IF notes[j].id # call.noteId THEN notes[j]
                                ELSE [notes[j] EXCEPT
                                        !.assets = AssetsWithout(@, call.assetId)]]
                        ELSE notes
            /\ notesSaveTimer' = IF ok THEN useDebouncedCallback(notesSaveTimer)
                                  ELSE notesSaveTimer
            /\ toast' = IF ok THEN Toast("success", VisualDeletedMessage)
                        ELSE Toast("error", DeleteAssetDefaultMessage)
    /\ UNCHANGED <<savKey, savLoads, loading, error, detail, loadedSessionId, chantierMeta,
                   chantierPhotoIdMap, includeMap, draftSaves, activeNoteId, noteText,
                   notePhotos, nowMs, notesSaves>>
    /\ UNCHANGED <<globalSavNote, chantier, publishing, publishCalls>>
    /\ UNCHANGED <<aggVars, visVars, genVars, sessVars, pubVars, inboxVars, noteStoreVars,
                   ctxVars, draftVars>>

\* C23: whatever upsertNote, handleNoteVisualChange, deleteNoteAsset and
\* deleteNote did, the notes hold no note with a blank text and no asset.
C23_NoEmptyNote ==
    \A i \in 1..Len(notes) : ~(Trim(notes[i].text) = <<>> /\ notes[i].assets = <<>>)

AssetsIdle == assetCalls = <<>>

\* ---- the visuals of the notes a load gave

\* handleNoteVisualChange on the page the load filled, its POST answered with
\* an asset: the asset joins a note of the list.
NoteStoreUpload ==
    /\ nsLoaded.present
    /\ \E i \in 1..Len(nsLoaded.notes), data \in UploadOutcomes :
         /\ data.kind = "ok" /\ data.hasAsset
         /\ nsLoaded' = [nsLoaded EXCEPT
                           !.notes = AttachAsset(@, [session |-> KeyS,
                                                     noteId |-> nsLoaded.notes[i].id,
                                                     text |-> <<>>, photos |-> <<>>],
                                                 data)]
    /\ UNCHANGED <<nsEdited, nsStored, nsItems, nsWritten>>
    /\ UNCHANGED <<aggVars, visVars, genVars, savVars, sessVars, pubVars, inboxVars, assetVars,
                   ctxVars, draftVars>>

\* asset_id of the assets of a note, in order
AssetIds(note) == [k \in 1..Len(note.assets) |-> note.assets[k].asset_id]

\* The notes are those of ParseNotesSav(stored) after one merge of the items:
\* a second merge changes nothing, and a note no item has assets for is as
\* parsed.
MergedOnce(noteList, stored, backendItems) ==
    LET parsed == ParseNotesSav(stored).notes
    IN /\ mergeAssetsFromBackendNotes(noteList, backendItems, KeyS) = noteList
       /\ Len(noteList) = Len(parsed)
       /\ \A i \in 1..Len(parsed) :
             (~backendItems.present
                \/ BackendAssetsOf(backendItems.list, parsed[i].id, KeyS) = <<>>)
                => noteList[i] = parsed[i]

\* C22: merging the backend assets is idempotent and keyed by asset_id.  After
\* a merge, and after an upload that returns an asset_id the note has, a note
\* holds at most one entry per asset_id; a second merge of the same items
\* changes nothing; a note no backend item has assets for is as parsed.
C22_MergeIdempotent ==
    /\ [](\A i \in 1..Len(nsLoaded.notes) :
             \A k, l \in 1..Len(nsLoaded.notes[i].assets) :
                nsLoaded.notes[i].assets[k].asset_id
                   = nsLoaded.notes[i].assets[l].asset_id => k = l)
    /\ [][(~nsLoaded.present /\ nsLoaded'.present)
             => MergedOnce(nsLoaded'.notes, nsStored, nsItems)]_vars

C22_Witness ==
    /\ nsLoaded.present
    /\ Len(nsLoaded.notes) = 2
    /\ nsLoaded.notes[1] = NoteOld
    /\ AssetIds(nsLoaded.notes[2]) = <<<<"v1">>, <<"v2">>, <<"v3">>>>
    /\ nsLoaded.notes[2].assets[1].asset_url = buildUrl(<<"p">>)
    /\ nsLoaded.notes[2].assets[2].filename = <<"h">>

\* ---- the context of the chantier on the SAV detail page

MaxContextSaves == 1

ContextSavedMessage == "Contexte enregistre."
NotAttachedMessage == "Cette session n'est pas encore rattachee a un chantier."

\* chantier.context as the backend holds it: the name of the installer and
\* the reference of the chantier (<<>> is null; the other fields of the
\* context follow the same path).
BackendContext == [nom |-> <<"n">>, reference_chantier |-> <<>>]
ContextTextPool == {<<>>, <<"r">>}

ContextIdle ==
    /\ isEditingContext = FALSE
    /\ draftInstallerName = <<>>
    /\ draftReferenceChantier = <<>>
    /\ contextSaves = <<>>
    /\ chantierContext = BackendContext

\* displayInstaller.nom: chantier.context.installateur.nom in chantier mode
\* (the session has none here)
displayInstallerNom == IF isChantierMode THEN chantierContext.nom ELSE <<>>

\* displayReferenceChantier: the reference of the context, else the id of
\* the chantier
displayReferenceChantier ==
    IF chantier.present /\ chantierContext.reference_chantier # <<>>
    THEN chantierContext.reference_chantier
    ELSE chantierMeta.chantier_id

\* "Modifier": the drafts take the values shown.
startEditContext ==
    /\ SavRendered
    /\ ~isEditingContext
    /\ draftInstallerName' = displayInstallerNom
    /\ draftReferenceChantier' = displayReferenceChantier
    /\ isEditingContext' = TRUE
    /\ UNCHANGED <<contextSaves, chantierContext>>
    /\ UNCHANGED <<aggVars, visVars, genVars, savVars, sessVars, pubVars, inboxVars,
                   noteStoreVars, assetVars, draftVars>>

\* onChange of the inputs of the context, shown in edit mode.
SetContextDraft ==
    /\ SavRendered
    /\ isEditingContext
    /\ \E v \in ContextTextPool :
         \/ /\ v # draftInstallerName
            /\ draftInstallerName' = v
            /\ UNCHANGED draftReferenceChantier
         \/ /\ v # draftReferenceChantier
            /\ draftReferenceChantier' = v
            /\ UNCHANGED draftInstallerName
    /\ UNCHANGED <<isEditingContext, contextSaves, chantierContext>>
    /\ UNCHANGED <<aggVars, visVars, genVars, savVars, sessVars, pubVars, inboxVars,
                   noteStoreVars, assetVars, draftVars>>

\* "Annuler".
cancelEditContext ==
    /\ SavRendered
    /\ isEditingContext
    /\ isEditingContext' = FALSE
    /\ UNCHANGED <<draftInstallerName, draftReferenceChantier, contextSaves,
                   chantierContext>>
    /\ UNCHANGED <<aggVars, visVars, genVars, savVars, sessVars, pubVars, inboxVars,
                   noteStoreVars, assetVars, draftVars>>

\* "Enregistrer": saveEditContext up to its await.  Outside chantier mode it
\* shows an error toast and returns; otherwise patchChantier sends the
\* context made of the drafts.
saveEditContext ==
    /\ SavRendered
    /\ isEditingContext
    /\ IF ~isChantierMode \/ chantierMeta.chantier_id = <<>>
       THEN /\ toast' = Toast("error", NotAttachedMessage)
            /\ UNCHANGED contextSaves
       ELSE /\ Len(contextSaves) < MaxContextSaves
            /\ contextSaves' = Append(contextSaves,
                                      [target |-> chantierMeta.chantier_id,
                                       patch |-> [nom |-> draftInstallerName,
                                                  reference_chantier |->
                                                      draftReferenceChantier]])
            /\ UNCHANGED toast
    /\ UNCHANGED <<isEditingContext, draftInstallerName, draftReferenceChantier,
                   chantierContext>>
    /\ UNCHANGED <<savKey, savLoads, loading, error, detail, loadedSessionId, chantierMeta,
                   chantierPhotoIdMap, includeMap, draftSaves, notes, activeNoteId,
                   noteText, notePhotos, nowMs, notesSaveTimer, notesSaves>>
    /\ UNCHANGED <<globalSavNote, chantier, publishing, publishCalls>>
    /\ UNCHANGED <<aggVars, visVars, genVars, sessVars, pubVars, inboxVars,
                   noteStoreVars, assetVars, draftVars>>

\* saveEditContext after its await.  patchChantier has merged the context
\* after a 2xx response, or caught its own error and set the error toast;
\* it returns either way, and saveEditContext leaves edit mode and sets the
\* success toast, the last toast set.
ContextSaveResponse ==
    /\ \E i \in 1..Len(contextSaves), outcome \in PatchOutcomes :
         /\ contextSaves' = RemoveAt(contextSaves, i)
         /\ chantierContext' = IF outcome.kind = "ok" /\ chantier.present
                               THEN contextSaves[i].patch ELSE chantierContext
    /\ isEditingContext' = FALSE
    /\ toast' = Toast("success", ContextSavedMessage)
    /\ UNCHANGED <<draftInstallerName, draftReferenceChantier>>
    /\ UNCHANGED <<savKey, savLoads, loading, error, detail, loadedSessionId, chantierMeta,
                   chantierPhotoIdMap, includeMap, draftSaves, notes, activeNoteId,
                   noteText, notePhotos, nowMs, notesSaveTimer, notesSaves>>
    /\ UNCHANGED <<globalSavNote, chantier, publishing, publishCalls>>
    /\ UNCHANGED <<aggVars, visVars, genVars, sessVars, pubVars, inboxVars,
                   noteStoreVars, assetVars, draftVars>>

\* C27: a context save that ends either succeeded (the context of the
\* chantier is the one sent, edit mode is left, the success toast is shown)
\* or failed: then the page stays in edit mode with its drafts, an error
\* toast is shown and the context of the chantier is as before.
C27_SuccessOnlyAfterPatch ==
    [][\A i \in 1..Len(contextSaves) :
          contextSaves' = RemoveAt(contextSaves, i) =>
             \/ /\ chantierContext' = contextSaves[i].patch
                /\ ~isEditingContext'
                /\ toast' = Toast("success", ContextSavedMessage)
             \/ /\ chantierContext' = chantierContext
                /\ isEditingContext' = isEditingContext
                /\ draftInstallerName' = draftInstallerName
                /\ draftReferenceChantier' = draftReferenceChantier
                /\ toast'.present /\ toast'.type = "error"]_vars

(***************************************************************************)
(* The other pages, at rest.                                               *)
(***************************************************************************)
ExtIdle == NoteStoreIdle /\ AssetsIdle /\ ContextIdle /\ DraftsIdle
PagesIdle == SessIdle /\ PubIdle /\ InboxIdle /\ ExtIdle

\* ---- specifications

InitAgg == AggIdle /\ VisIdle /\ GenIdle /\ SavIdle /\ PagesIdle
NextAgg == AggAddSession \/ AggAddInputPhoto \/ AggCall
SpecAgg == InitAgg /\ [][NextAgg]_vars

InitVis ==
    /\ AggIdle
    /\ visInput \in VisGroupInputs \cup VisFieldInputs
    /\ visResult = [called |-> FALSE, value |-> FALSE]
    /\ GenIdle
    /\ SavIdle
    /\ PagesIdle
NextVis == VisCallGroup \/ VisCallField
SpecVis == InitVis /\ [][NextVis]_vars

InitGen == AggIdle /\ VisIdle /\ GenIdle /\ SavIdle /\ PagesIdle

\* The contact search answered for QueryAB, its results listed (a state
\* SpecContacts reaches): the point from which a contact can be selected.
ContactSearched ==
    /\ contactQuery = QueryAB
    /\ contactResults = ContactsBackend(QueryAB)
    /\ showResults = TRUE
    /\ blockSearch = FALSE
    /\ isLoadingContacts = FALSE
    /\ contactPhone = <<>>
    /\ matchingCandidates = <<>>
    /\ selectedUserData = NoUser
    /\ isLookupLoading = FALSE
    /\ lookupError = NoError
    /\ contactTimer = NoTimer
    /\ contactInFlight = <<>>
    /\ contactIssued = 1
    /\ lookupInFlight = 0

\* The form up to the generated link, from the listed search results on.
InitLink == AggIdle /\ VisIdle /\ FormIdle /\ ContactSearched /\ SavIdle /\ PagesIdle
NextLink ==
    \/ ProductsLoaded \/ SetNs \/ SetEm \/ SetC
    \/ handleProductChange \/ handleSheetChange \/ StepsResponse
    \/ handleIvChange \/ toggleGroup
    \/ handleSelectContact
SpecLink == InitLink /\ [][NextLink]_vars

\* Product, sheet, intro fields and step groups.
NextSteps ==
    \/ ProductsLoaded \/ handleProductChange \/ handleSheetChange \/ StepsResponse
    \/ handleIvChange \/ toggleGroup \/ selectAllInCategory \/ clearAllInCategory
    \/ handleResetAll
SpecSteps == InitGen /\ [][NextSteps]_vars

\* Contact search and lookup.
NextContacts ==
    \/ ContactQueryChange \/ ContactTimerFires \/ ContactsResponse
    \/ handleSelectContact \/ LookupResponse \/ ChooseCandidate \/ ChooseChantier
    \/ handleResetAll
SpecContacts == InitGen /\ [][NextContacts]_vars

\* The SAV detail page, mounted on either item.
InitSav ==
    /\ AggIdle /\ VisIdle /\ GenIdle /\ PagesIdle
    /\ \E itemKey \in {KeyS, KeyC} : SavMounted(itemKey)

\* Loads, include flags and their draft saves.
NextInclude == SavLoadResponse \/ SavKeyChange \/ toggleInclude \/ DraftSaveDone
SpecInclude == InitSav /\ [][NextInclude]_vars

\* The notes and their editor.
NextNotes ==
    \/ SavLoadResponse \/ SetNoteText \/ toggleNotePhoto \/ startNewNote
    \/ openNoteForEdit \/ upsertNote \/ deleteNote
SpecNotes == InitSav /\ [][NextNotes]_vars

\* The notes autosave: its timer, its PATCH, the toast and the clock.
NextAutosave ==
    \/ SavLoadResponse \/ SetGlobalSavNote \/ openNoteForEdit \/ deleteNote
    \/ Tick \/ ToastExpires \/ NotesSaveFires \/ NotesSaveResponse
SpecAutosave == InitSav /\ [][NextAutosave]_vars

\* Publish on the SAV detail page and on the diagnostic page.
NextPublish ==
    \/ SavLoadResponse \/ toggleInclude \/ DraftSaveDone
    \/ handlePublish \/ PublishResponse \/ NotifyResponse
    \/ SessLoadResponse \/ SessHandlePublish \/ SessPublishResponse \/ SessNotifyResponse
SpecPublish == InitSav /\ [][NextPublish]_vars

\* The SAV inbox: deletion of rows.
NextInboxDelete ==
    \/ FetchOverview \/ OverviewResponse
    \/ handleDeleteRow \/ ConfirmAnswered \/ DeleteResponse \/ DeleteRefreshResponse
SpecInboxDelete == InitGen /\ [][NextInboxDelete]_vars

\* The SAV inbox: the unseen highlight.
\* The public report pages.
InitPublic ==
    /\ AggIdle /\ VisIdle /\ GenIdle /\ SavIdle /\ SessIdle /\ InboxIdle /\ ExtIdle
    /\ \E pg \in PubPages, sl \in PubSlugs : PubMounted(pg, sl)
NextPublic == PubLoadResponse \/ PubNavigate \/ handlePrev \/ handleNext
SpecPublic == InitPublic /\ [][NextPublic]_vars
\* Every fetch ends, by a response or by a rejection.
FairPublic == SpecPublic /\ WF_vars(PubLoadResponse)

NextInboxSeen ==
    ServerActivity \/ FetchOverview \/ OverviewResponse \/ markSeen \/ InboxReload
SpecInboxSeen == InitGen /\ [][NextInboxSeen]_vars

\* The notes of an unattached session, saved and loaded.
InitNoteStore ==
    /\ AggIdle /\ VisIdle /\ GenIdle /\ SavIdle /\ SessIdle /\ PubIdle /\ InboxIdle
    /\ AssetsIdle /\ ContextIdle /\ DraftsIdle /\ NoteStoreMounted
NextNoteStore == NoteStoreSave \/ NoteStoreLoad \/ NoteStoreUpload
SpecNoteStore == InitNoteStore /\ [][NextNoteStore]_vars

\* The notes of the unattached session, their editor and their visuals.
NextAssets ==
    \/ SavLoadResponse \/ SetNoteText \/ upsertNote \/ deleteNote
    \/ handleNoteVisualChange \/ NoteVisualResponse \/ deleteNoteAsset
    \/ DeleteAssetResponse
SpecAssets == InitGen /\ [][NextAssets]_vars

\* The context of the chantier and its edit mode.
NextContext ==
    \/ SavLoadResponse \/ startEditContext \/ SetContextDraft \/ cancelEditContext
    \/ saveEditContext \/ ContextSaveResponse \/ ToastExpires
SpecContext == InitSav /\ [][NextContext]_vars

\* The drafts of the photos of the diagnostic page and their saves.
NextDrafts ==
    \/ SessLoadResponse \/ SessSelectPhoto \/ handleStatusChange \/ handleCommentChange
    \/ DraftTimerFires \/ DraftPostDone
SpecDrafts == InitGen /\ [][NextDrafts]_vars

====
